---------------------------- MODULE Spec2Model ----------------------------
(***************************************************************************)
(* A model of libusbg (src/usbg.c): the in-memory gadget graph kept in     *)
(* sys/queue.h tail queues, the configfs tree it mirrors, and the          *)
(* operations that discover, create, bind, unbind and enable gadgets.      *)
(*                                                                         *)
(* C strings are sequences of character codes (ASCII), so that strcmp,     *)
(* strchr, snprintf and strtol can be computed the way libc computes them. *)
(* A node of the graph is addressed by the path of the directory entry it  *)
(* was allocated for; NULL is the empty sequence.                          *)
(***************************************************************************)
EXTENDS Integers, Sequences, FiniteSets, TLC

(***************************************************************************)
(* Character codes and string literals of the source.                      *)
(***************************************************************************)
CH_SLASH == 47
CH_DOT == 46
CH_NL == 10
CH_MINUS == 45
CH_PLUS == 43
CH_ZERO == 48
CH_NINE == 57
CH_SPACE == 32
CH_TAB == 9
CH_CR == 13

STRINGS_DIR == <<115, 116, 114, 105, 110, 103, 115>>                \* "strings"
CONFIGS_DIR == <<99, 111, 110, 102, 105, 103, 115>>                 \* "configs"
FUNCTIONS_DIR == <<102, 117, 110, 99, 116, 105, 111, 110, 115>>      \* "functions"
STR_usb_gadget == <<117, 115, 98, 95, 103, 97, 100, 103, 101, 116>>  \* "usb_gadget"
STR_UDC == <<85, 68, 67>>                                            \* "UDC"
STR_EMPTY == <<>>                                                    \* ""

\* function_names[]: ordinal i of usbg_function_type is entry i + 1
function_names ==
    << <<103, 115, 101, 114>>,            \* "gser"
       <<97, 99, 109>>,                   \* "acm"
       <<111, 98, 101, 120>>,             \* "obex"
       <<101, 99, 109>>,                  \* "ecm"
       <<103, 101, 116, 104>>,            \* "geth"
       <<110, 99, 109>>,                  \* "ncm"
       <<101, 101, 109>>,                 \* "eem"
       <<114, 110, 100, 105, 115>>,       \* "rndis"
       <<112, 104, 111, 110, 101, 116>> >> \* "phonet"

F_SERIAL == 0
F_ACM == 1
F_OBEX == 2
F_ECM == 3
F_SUBSET == 4
F_NCM == 5
F_EEM == 6
F_RNDIS == 7
F_PHONET == 8

(***************************************************************************)
(* The error taxonomy (usbg_error) and the errno values it is built from.  *)
(***************************************************************************)
USBG_SUCCESS == 0
USBG_ERROR_NO_MEM == -1
USBG_ERROR_NO_ACCESS == -2
USBG_ERROR_INVALID_PARAM == -3
USBG_ERROR_NOT_FOUND == -4
USBG_ERROR_IO == -5
USBG_ERROR_EXIST == -6
USBG_ERROR_NO_DEV == -7
USBG_ERROR_BUSY == -8
USBG_ERROR_NOT_SUPPORTED == -9
USBG_ERROR_PATH_TOO_LONG == -10
USBG_ERROR_OTHER_ERROR == -99

EPERM == 1
ENOENT == 2
EIO == 5
ENOMEM == 12
EACCES == 13
EBUSY == 16
EEXIST == 17
ENODEV == 19
ENOTDIR == 20
EINVAL == 22
EROFS == 30
ERANGE == 34

\* usbg_translate_error without the case for EBUSY
usbg_translate_error_no_busy(error) ==
    CASE error = ENOMEM -> USBG_ERROR_NO_MEM
      [] error \in {EACCES, EROFS, EPERM} -> USBG_ERROR_NO_ACCESS
      [] error \in {ENOENT, ENOTDIR} -> USBG_ERROR_NOT_FOUND
      [] error \in {EINVAL, USBG_ERROR_INVALID_PARAM} -> USBG_ERROR_INVALID_PARAM
      [] error = EIO -> USBG_ERROR_IO
      [] error = EEXIST -> USBG_ERROR_EXIST
      [] error = ENODEV -> USBG_ERROR_NO_DEV
      [] OTHER -> USBG_ERROR_OTHER_ERROR

usbg_translate_error(error) ==
    CASE error = ENOMEM -> USBG_ERROR_NO_MEM
      [] error \in {EACCES, EROFS, EPERM} -> USBG_ERROR_NO_ACCESS
      [] error \in {ENOENT, ENOTDIR} -> USBG_ERROR_NOT_FOUND
      [] error \in {EINVAL, USBG_ERROR_INVALID_PARAM} -> USBG_ERROR_INVALID_PARAM
      [] error = EIO -> USBG_ERROR_IO
      [] error = EEXIST -> USBG_ERROR_EXIST
      [] error = ENODEV -> USBG_ERROR_NO_DEV
      [] error = EBUSY -> USBG_ERROR_BUSY
      [] OTHER -> USBG_ERROR_OTHER_ERROR

(***************************************************************************)
(* libc string functions on sequences of character codes.                  *)
(***************************************************************************)
\* The value bound by {e : r \in {call}}: the result r of a call is named
\* once and e is computed from it.
The(S) == CHOOSE v \in S : TRUE

SetMin(S) == CHOOSE x \in S : \A y \in S : x <= y
SetMax(S) == CHOOSE x \in S : \A y \in S : y <= x

\* strcmp: the difference of the first differing characters, the
\* terminating NUL (0) included.
strcmp(a, b) ==
    LET n == IF Len(a) < Len(b) THEN Len(a) ELSE Len(b)
        diff == {i \in 1..n : a[i] # b[i]}
    IN  IF diff # {} THEN a[SetMin(diff)] - b[SetMin(diff)]
        ELSE IF Len(a) = Len(b) THEN 0
        ELSE IF Len(a) < Len(b) THEN 0 - b[n + 1]
        ELSE a[n + 1]

\* strchr / strrchr: the index of the first / last ch in s, 0 when absent.
strchr(s, ch) ==
    LET hit == {i \in 1..Len(s) : s[i] = ch}
    IN  IF hit = {} THEN 0 ELSE SetMin(hit)

strrchr(s, ch) ==
    LET hit == {i \in 1..Len(s) : s[i] = ch}
    IN  IF hit = {} THEN 0 ELSE SetMax(hit)

isspace(ch) == ch \in {CH_SPACE, CH_TAB, CH_NL, 11, 12, CH_CR}
isdigit(ch) == ch >= CH_ZERO /\ ch <= CH_NINE

\* "%s/%s" and "%s/%s/%s" as snprintf composes them (before truncation).
Join2(a, b) == a \o <<CH_SLASH>> \o b
Join3(a, b, c) == a \o <<CH_SLASH>> \o b \o <<CH_SLASH>> \o c

\* The directory part and the last component of a path.
Dirname(p) ==
    LET i == strrchr(p, CH_SLASH)
    IN  IF i = 0 THEN <<>> ELSE SubSeq(p, 1, i - 1)

Basename(p) == SubSeq(p, strrchr(p, CH_SLASH) + 1, Len(p))

\* "%d" of a non-negative or negative int.
RECURSIVE FmtNat(_)
FmtNat(n) ==
    IF n < 10 THEN <<CH_ZERO + n>>
    ELSE FmtNat(n \div 10) \o <<CH_ZERO + (n % 10)>>

FmtDec(n) == IF n < 0 THEN <<CH_MINUS>> \o FmtNat(0 - n) ELSE FmtNat(n)


(***************************************************************************)
(* sys/queue.h tail queues.  A queue is a pair Q = [h, N]: the head         *)
(* h = [first, last] and the nodes N, a function from node addresses to     *)
(* records with the fields next and prev.  A node pointer is a node         *)
(* address or NULL.  tqe_prev and tqh_last hold the address of a tqe_next   *)
(* field: HEADP stands for &head->tqh_first, a node address n for           *)
(* &n->tqe_next.                                                            *)
(***************************************************************************)
NULL == <<>>
HEADP == <<>>

TAILQ_INIT == [first |-> NULL, last |-> HEADP]

TAILQ_EMPTY(h) == h.first = NULL
TAILQ_FIRST(h) == h.first
TAILQ_NEXT(N, n) == N[n].next

\* *p and *p = v for a pointer p to a tqe_next field
TqLoad(Q, p) == IF p = HEADP THEN Q.h.first ELSE Q.N[p].next

TqStore(Q, p, v) ==
    IF p = HEADP THEN [Q EXCEPT !.h.first = v]
    ELSE [Q EXCEPT !.N[p].next = v]

\* TAILQ_LAST: *(((struct head *)head->tqh_last)->tqh_last)
TAILQ_LAST(Q) ==
    LET p == Q.h.last
        pp == IF p = HEADP THEN Q.h.last ELSE Q.N[p].prev
    IN  TqLoad(Q, pp)

TAILQ_INSERT_HEAD(Q, elm) ==
    LET old == Q.h.first
        Q1 == [Q EXCEPT !.N[elm].next = old]
        Q2 == IF old # NULL THEN [Q1 EXCEPT !.N[old].prev = elm]
              ELSE [Q1 EXCEPT !.h.last = elm]
    IN  [Q2 EXCEPT !.h.first = elm, !.N[elm].prev = HEADP]

TAILQ_INSERT_TAIL(Q, elm) ==
    LET Q1 == [Q EXCEPT !.N[elm].next = NULL, !.N[elm].prev = Q.h.last]
        Q2 == TqStore(Q1, Q1.h.last, elm)
    IN  [Q2 EXCEPT !.h.last = elm]

TAILQ_INSERT_BEFORE(Q, listelm, elm) ==
    LET Q1 == [Q EXCEPT !.N[elm].prev = Q.N[listelm].prev,
                        !.N[elm].next = listelm]
        Q2 == TqStore(Q1, Q1.N[listelm].prev, elm)
    IN  [Q2 EXCEPT !.N[listelm].prev = elm]

TAILQ_REMOVE(Q, elm) ==
    LET nx == Q.N[elm].next
        Q1 == IF nx # NULL THEN [Q EXCEPT !.N[nx].prev = Q.N[elm].prev]
              ELSE [Q EXCEPT !.h.last = Q.N[elm].prev]
    IN  TqStore(Q1, Q1.N[elm].prev, Q1.N[elm].next)

\* TAILQ_FOREACH as the sequence of nodes it visits.  The walk is cut after
\* fuel steps: a queue whose next pointers form a cycle is visited forever
\* by the C loop.
RECURSIVE TqWalk(_, _, _)
TqWalk(N, n, fuel) ==
    IF n = NULL \/ fuel = 0 THEN <<>>
    ELSE <<n>> \o TqWalk(N, N[n].next, fuel - 1)

TAILQ_FOREACH(h, N) == TqWalk(N, h.first, Cardinality(DOMAIN N) + 1)

\* The body of the TAILQ_FOREACH loop of INSERT_TAILQ_STRING_ORDER from
\* _cur on: a node whose name is smaller than the new one is skipped, and
\* the new node is inserted before every other node the loop visits (the
\* loop does not stop after the first insertion).
RECURSIVE InsertLoop(_, _, _, _)
InsertLoop(Q, cur, elm, fuel) ==
    IF cur = NULL \/ fuel = 0 THEN Q
    ELSE IF strcmp(Q.N[elm].name, Q.N[cur].name) > 0
         THEN InsertLoop(Q, Q.N[cur].next, elm, fuel - 1)
         ELSE LET Q1 == TAILQ_INSERT_BEFORE(Q, cur, elm)
              IN  InsertLoop(Q1, Q1.N[cur].next, elm, fuel - 1)

\* INSERT_TAILQ_STRING_ORDER(HeadPtr, HeadType, NameField, ToInsert, NodeField)
INSERT_TAILQ_STRING_ORDER(Q, elm) ==
    IF TAILQ_EMPTY(Q.h)
       \/ strcmp(Q.N[elm].name, Q.N[TAILQ_FIRST(Q.h)].name) < 0
    THEN TAILQ_INSERT_HEAD(Q, elm)
    ELSE IF strcmp(Q.N[elm].name, Q.N[TAILQ_LAST(Q)].name) > 0
    THEN TAILQ_INSERT_TAIL(Q, elm)
    ELSE InsertLoop(Q, Q.h.first, elm, Cardinality(DOMAIN Q.N) + 1)


(***************************************************************************)
(* The configfs tree and the system calls the library makes on it.         *)
(*                                                                         *)
(* A world w = [dirs, links, files, fault, ferrno, log]: the directories   *)
(* (a set of paths), the symbolic links (path -> target), the attribute    *)
(* files (path -> value), the fault the environment injects into the       *)
(* current call (the fault-th fallible step from now fails with errno      *)
(* ferrno; 0: none) and the system calls made so far by the current call.  *)
(***************************************************************************)
USBG_MAX_PATH_LENGTH == 4096
USBG_MAX_STR_LENGTH == 256
ENOTEMPTY == 39

Hit(w) == w.fault = 1

\* Path resolution ignores repeated separators ("a//b" names "a/b").
RECURSIVE Squeeze(_)
Squeeze(p) ==
    IF Len(p) < 2 THEN p
    ELSE IF p[1] = CH_SLASH /\ p[2] = CH_SLASH THEN Squeeze(Tail(p))
    ELSE <<p[1]>> \o Squeeze(Tail(p))

NormPath(p) ==
    IF \A i \in 1..(Len(p) - 1) : p[i] # CH_SLASH \/ p[i + 1] # CH_SLASH THEN p
    ELSE Squeeze(p)

Tick(w, call, path) ==
    [w EXCEPT !.fault = IF @ > 0 THEN @ - 1 ELSE 0,
              !.log = Append(@, <<call, path>>)]

SysFail(w, e) == [w |-> w, rc |-> -1, errno |-> e]
SysOk(w) == [w |-> w, rc |-> 0, errno |-> 0]

Entries(w) == w.dirs \cup DOMAIN w.links \cup DOMAIN w.files

IsPrefix(p, q) == Len(p) < Len(q) /\ SubSeq(q, 1, Len(p) + 1) = p \o <<CH_SLASH>>

\* What configfs creates by itself inside a new directory: a gadget gets
\* functions/, configs/, strings/ and an empty UDC attribute, a config
\* gets strings/.
KernelDirs(p) ==
    IF Basename(Dirname(p)) = STR_usb_gadget
    THEN {Join2(p, FUNCTIONS_DIR), Join2(p, CONFIGS_DIR), Join2(p, STRINGS_DIR)}
    ELSE IF Basename(Dirname(p)) = CONFIGS_DIR THEN {Join2(p, STRINGS_DIR)}
    ELSE {}

KernelFiles(p) ==
    IF Basename(Dirname(p)) = STR_usb_gadget THEN {Join2(p, STR_UDC)} ELSE {}

\* malloc/strdup/asprintf of one node: a fallible step that is no system call
Alloc(w) ==
    [w |-> [w EXCEPT !.fault = IF @ > 0 THEN @ - 1 ELSE 0], ok |-> ~Hit(w)]

sys_mkdir(w, rawp) ==
    LET p == NormPath(rawp)
        w1 == Tick(w, "mkdir", p)
    IN  IF Hit(w) THEN SysFail(w1, w.ferrno)
        ELSE IF p \in Entries(w) THEN SysFail(w1, EEXIST)
        ELSE IF Dirname(p) \notin w.dirs THEN SysFail(w1, ENOENT)
        ELSE SysOk([w1 EXCEPT
                !.dirs = @ \cup {p} \cup KernelDirs(p),
                !.files = [f \in KernelFiles(p) |-> STR_EMPTY] @@ @])

sys_rmdir(w, rawp) ==
    LET p == NormPath(rawp)
        w1 == Tick(w, "rmdir", p)
        under == {q \in Entries(w) : IsPrefix(p, q)}
    IN  IF Hit(w) THEN SysFail(w1, w.ferrno)
        ELSE IF p \notin w.dirs THEN SysFail(w1, ENOENT)
        ELSE IF ~(under \subseteq (KernelDirs(p) \cup KernelFiles(p)))
        THEN SysFail(w1, ENOTEMPTY)
        ELSE SysOk([w1 EXCEPT
                !.dirs = @ \ ({p} \cup under),
                !.files = [f \in DOMAIN @ \ under |-> @[f]]])

sys_symlink(w, target, rawlink) ==
    LET linkpath == NormPath(rawlink)
        w1 == Tick(w, "symlink", linkpath)
    IN  IF Hit(w) THEN SysFail(w1, w.ferrno)
        ELSE IF linkpath \in Entries(w) THEN SysFail(w1, EEXIST)
        ELSE IF Dirname(linkpath) \notin w.dirs THEN SysFail(w1, ENOENT)
        ELSE SysOk([w1 EXCEPT !.links = (linkpath :> target) @@ @])

sys_unlink(w, rawp) ==
    LET p == NormPath(rawp)
        w1 == Tick(w, "unlink", p)
    IN  IF Hit(w) THEN SysFail(w1, w.ferrno)
        ELSE IF p \in DOMAIN w.links
        THEN SysOk([w1 EXCEPT !.links = [l \in DOMAIN @ \ {p} |-> @[l]]])
        ELSE IF p \in DOMAIN w.files
        THEN SysOk([w1 EXCEPT !.files = [f \in DOMAIN @ \ {p} |-> @[f]]])
        ELSE SysFail(w1, ENOENT)

\* readlink: the result carries the target
sys_readlink(w, rawp) ==
    LET p == NormPath(rawp)
        w1 == Tick(w, "readlink", p)
    IN  IF Hit(w) THEN SysFail(w1, w.ferrno) @@ [target |-> <<>>]
        ELSE IF p \in DOMAIN w.links
        THEN SysOk(w1) @@ [target |-> w.links[p]]
        ELSE SysFail(w1, IF p \in Entries(w) THEN EINVAL ELSE ENOENT)
             @@ [target |-> <<>>]

sys_opendir(w, rawp) ==
    LET p == NormPath(rawp)
        w1 == Tick(w, "opendir", p)
    IN  IF Hit(w) THEN SysFail(w1, w.ferrno)
        ELSE IF p \in w.dirs THEN SysOk(w1)
        ELSE SysFail(w1, IF p \in Entries(w) THEN ENOTDIR ELSE ENOENT)

\* alphasort: a set of names as the sequence in ascending strcmp order
RECURSIVE SortNames(_)
SortNames(S) ==
    IF S = {} THEN <<>>
    ELSE LET m == CHOOSE x \in S : \A y \in S : strcmp(x, y) <= 0
         IN  <<m>> \o SortNames(S \ {m})

\* scandir(dir, &dent, select, alphasort): names is the sorted list of the
\* entries select keeps; onlyLinks is bindings_select (d_type == DT_LNK),
\* otherwise file_select (every entry but "." and "..").
sys_scandir(w, rawdir, onlyLinks) ==
    LET dir == NormPath(rawdir)
        w1 == Tick(w, "scandir", dir)
        kept == {q \in (IF onlyLinks THEN DOMAIN w.links ELSE Entries(w)) :
                    Dirname(q) = dir}
    IN  IF Hit(w) THEN SysFail(w1, w.ferrno) @@ [names |-> <<>>]
        ELSE IF dir \notin w.dirs
        THEN SysFail(w1, IF dir \in Entries(w) THEN ENOTDIR ELSE ENOENT)
             @@ [names |-> <<>>]
        ELSE SysOk(w1) @@ [names |-> SortNames({Basename(q) : q \in kept})]

\* fopen(p, "r") followed by fgets(buf, USBG_MAX_STR_LENGTH, fp): an
\* attribute reads as its value and a line terminator; line is what fgets
\* stores, eof says that fgets returned NULL.
sys_fopen_read(w, rawp) ==
    LET p == NormPath(rawp)
        w1 == Tick(w, "fopen_r", p)
        text == w.files[p] \o <<CH_NL>>
        nl == strchr(text, CH_NL)
        cut == IF nl < USBG_MAX_STR_LENGTH - 1 THEN nl ELSE USBG_MAX_STR_LENGTH - 1
    IN  IF Hit(w) THEN SysFail(w1, w.ferrno) @@ [line |-> <<>>, eof |-> FALSE]
        ELSE IF p \notin DOMAIN w.files
        THEN SysFail(w1, IF p \in Entries(w) THEN EACCES ELSE ENOENT)
             @@ [line |-> <<>>, eof |-> FALSE]
        ELSE SysOk(w1) @@ [line |-> SubSeq(text, 1, cut), eof |-> FALSE]

\* fopen(p, "w"): the attribute must lie in an existing directory
sys_fopen_write(w, rawp) ==
    LET p == NormPath(rawp)
        w1 == Tick(w, "fopen_w", p)
    IN  IF Hit(w) THEN SysFail(w1, w.ferrno)
        ELSE IF p \in w.dirs \/ p \in DOMAIN w.links THEN SysFail(w1, EACCES)
        ELSE IF Dirname(p) \notin w.dirs THEN SysFail(w1, ENOENT)
        ELSE SysOk(w1)

\* fputs(buf, fp); fflush(fp): the attribute takes the text written, less
\* one trailing line terminator
sys_fputs(w, rawp, buf) ==
    LET p == NormPath(rawp)
        w1 == Tick(w, "fputs", p)
        val == IF Len(buf) > 0 /\ buf[Len(buf)] = CH_NL
               THEN SubSeq(buf, 1, Len(buf) - 1) ELSE buf
    IN  IF Hit(w) THEN SysFail(w1, w.ferrno)
        ELSE SysOk([w1 EXCEPT !.files = (p :> val) @@
                        [f \in DOMAIN @ \ {p} |-> @[f]]])


(***************************************************************************)
(* AttributeIO: usbg_read_buf .. usbg_write_string.                        *)
(***************************************************************************)
\* usbg_read_buf that opens the file whatever the length of the path
usbg_read_buf_unbounded(w, path, name, file) ==
    LET p == Join3(path, name, file)
    IN  The({ IF fp.rc # 0
              THEN [w |-> fp.w, ret |-> usbg_translate_error(fp.errno),
                    buf |-> <<>>]
              ELSE IF fp.eof
              THEN [w |-> fp.w, ret |-> USBG_ERROR_IO, buf |-> <<>>]
              ELSE [w |-> fp.w, ret |-> USBG_SUCCESS, buf |-> fp.line]
              : fp \in {sys_fopen_read(w, p)} })

usbg_read_buf(w, path, name, file) ==
    LET p == Join3(path, name, file)
    IN  IF Len(p) < USBG_MAX_PATH_LENGTH
        THEN The({ IF fp.rc # 0
                   THEN [w |-> fp.w, ret |-> usbg_translate_error(fp.errno),
                         buf |-> <<>>]
                   ELSE IF fp.eof
                   THEN [w |-> fp.w, ret |-> USBG_ERROR_IO, buf |-> <<>>]
                   ELSE [w |-> fp.w, ret |-> USBG_SUCCESS, buf |-> fp.line]
                   : fp \in {sys_fopen_read(w, p)} })
        ELSE [w |-> w, ret |-> USBG_ERROR_PATH_TOO_LONG, buf |-> <<>>]

usbg_read_string(w, path, name, file) ==
    LET Cut(buf, nl) == IF nl # 0 THEN SubSeq(buf, 1, nl - 1) ELSE buf
    IN  The({ IF r.ret = USBG_SUCCESS
              THEN [r EXCEPT !.buf = Cut(@, strchr(@, CH_NL))]
              ELSE [r EXCEPT !.buf = STR_EMPTY]
              : r \in {usbg_read_buf(w, path, name, file)} })

\* strtol(s, &pos, base) for base 10 or 16, followed by the conversion of
\* the long to int.  The digits are folded into four 16-bit limbs of the
\* magnitude modulo 2^64; over says that a carry left the fourth limb.
DigitOf(ch) ==
    IF isdigit(ch) THEN ch - CH_ZERO
    ELSE IF ch >= 97 /\ ch <= 122 THEN ch - 87
    ELSE IF ch >= 65 /\ ch <= 90 THEN ch - 55
    ELSE 36

RECURSIVE FoldRadix(_, _, _, _)
FoldRadix(s, i, base, acc) ==
    IF i > Len(s) \/ DigitOf(s[i]) >= base THEN [acc EXCEPT !.endp = i]
    ELSE LET l0 == acc.l[1] * base + DigitOf(s[i])
             l1 == acc.l[2] * base + l0 \div 65536
             l2 == acc.l[3] * base + l1 \div 65536
             l3 == acc.l[4] * base + l2 \div 65536
         IN  FoldRadix(s, i + 1, base,
                       [l |-> <<l0 % 65536, l1 % 65536, l2 % 65536, l3 % 65536>>,
                        over |-> acc.over \/ l3 >= 65536, endp |-> i])

RECURSIVE SkipSpace(_, _)
SkipSpace(s, i) == IF i <= Len(s) /\ isspace(s[i]) THEN SkipSpace(s, i + 1) ELSE i

strtol(s, base) ==
    LET sg == SkipSpace(s, 1)
        neg == sg <= Len(s) /\ s[sg] = CH_MINUS
        num == IF sg <= Len(s) /\ s[sg] \in {CH_MINUS, CH_PLUS} THEN sg + 1 ELSE sg
        \* "0x" or "0X" before a hexadecimal digit
        prefixed == /\ base = 16 /\ num + 2 <= Len(s) /\ s[num] = CH_ZERO
                    /\ s[num + 1] \in {120, 88} /\ DigitOf(s[num + 2]) < 16
        start == IF prefixed THEN num + 2 ELSE num
        f == FoldRadix(s, start, base,
                       [l |-> <<0, 0, 0, 0>>, over |-> FALSE, endp |-> start])
        nodigits == f.endp = start
        low == IF f.l[2] >= 32768 THEN (f.l[2] - 65536) * 65536 + f.l[1]
               ELSE f.l[2] * 65536 + f.l[1]
        big == \/ f.over
               \/ ~neg /\ f.l[4] >= 32768
               \/ neg /\ (f.l[4] > 32768
                          \/ (f.l[4] = 32768 /\ <<f.l[1], f.l[2], f.l[3]>> # <<0, 0, 0>>))
    IN  [val |-> IF nodigits THEN 0
                 ELSE IF big THEN (IF neg THEN 0 ELSE -1)   \* (int) LONG_MIN, LONG_MAX
                 ELSE IF neg /\ ~(f.l[2] = 32768 /\ f.l[1] = 0) THEN 0 - low
                 ELSE low,
         pos |-> IF nodigits THEN 1 ELSE f.endp,
         erange |-> ~nodigits /\ big]

\* usbg_read_int: dest is the int stored through the pointer, NULL when
\* nothing is stored.  pos is the address of a character of buf, never a
\* null pointer.
usbg_read_int(w, path, name, file, base) ==
    The({ IF r.ret = USBG_SUCCESS
          THEN [w |-> r.w, ret |-> USBG_SUCCESS, dest |-> strtol(r.buf, base).val]
          ELSE [w |-> r.w, ret |-> r.ret, dest |-> NULL]
          : r \in {usbg_read_buf(w, path, name, file)} })

usbg_read_dec(w, p, n, f) == usbg_read_int(w, p, n, f, 10)
\* usbg_read_hex that converts in base 10
usbg_read_hex_decimal(w, p, n, f) == usbg_read_int(w, p, n, f, 10)

usbg_read_hex(w, p, n, f) == usbg_read_int(w, p, n, f, 16)

usbg_write_buf(w, path, name, file, buf) ==
    LET p == Join3(path, name, file)
    IN  IF Len(p) < USBG_MAX_PATH_LENGTH
        THEN The({ IF fp.rc # 0
                   THEN [w |-> fp.w, ret |-> usbg_translate_error(fp.errno)]
                   ELSE The({ IF wr.rc # 0
                              THEN [w |-> wr.w,
                                    ret |-> usbg_translate_error(wr.errno)]
                              ELSE [w |-> wr.w, ret |-> USBG_SUCCESS]
                              : wr \in {sys_fputs(fp.w, p, buf)} })
                   : fp \in {sys_fopen_write(w, p)} })
        ELSE [w |-> w, ret |-> USBG_ERROR_PATH_TOO_LONG]

\* "%x" with at least width digits (0-padded), for a value >= 0
HexDigit(d) == IF d < 10 THEN CH_ZERO + d ELSE 97 + (d - 10)

RECURSIVE FmtHex(_, _)
FmtHex(n, width) ==
    IF n < 16 /\ width <= 1 THEN <<HexDigit(n)>>
    ELSE FmtHex(n \div 16, width - 1) \o <<HexDigit(n % 16)>>

\* the formats of usbg_write_dec, usbg_write_hex16 and usbg_write_hex8
FormatInt(fmt, value) ==
    CASE fmt = "%d\n" -> FmtDec(value) \o <<CH_NL>>
      [] fmt = "0x%04x\n" -> <<CH_ZERO, 120>> \o FmtHex(value, 4) \o <<CH_NL>>
      [] fmt = "0x%02x\n" -> <<CH_ZERO, 120>> \o FmtHex(value, 2) \o <<CH_NL>>

usbg_write_int(w, path, name, file, value, fmt) ==
    LET buf == FormatInt(fmt, value)
        nmb == Len(buf)
    IN  IF nmb < USBG_MAX_STR_LENGTH
        THEN usbg_write_buf(w, path, name, file, buf)
        ELSE [w |-> w, ret |-> USBG_ERROR_INVALID_PARAM]

usbg_write_dec(w, p, n, f, v) == usbg_write_int(w, p, n, f, v, "%d\n")
usbg_write_hex16(w, p, n, f, v) == usbg_write_int(w, p, n, f, v, "0x%04x\n")
usbg_write_hex8(w, p, n, f, v) == usbg_write_int(w, p, n, f, v, "0x%02x\n")
usbg_write_string(w, path, name, file, buf) ==
    usbg_write_buf(w, path, name, file, buf)

ubsg_rm_file(w, path, name) ==
    LET buf == Join2(path, name)
    IN  IF Len(buf) < USBG_MAX_PATH_LENGTH
        THEN The({ IF r.rc # 0
                   THEN [w |-> r.w, ret |-> usbg_translate_error(r.errno)]
                   ELSE [w |-> r.w, ret |-> USBG_SUCCESS]
                   : r \in {sys_unlink(w, buf)} })
        ELSE [w |-> w, ret |-> USBG_ERROR_PATH_TOO_LONG]

(***************************************************************************)
(* The naming conventions: type table lookups and the two name splits.     *)
(***************************************************************************)
\* usbg_lookup_function_type: the ordinal of name, -1 when it is in no entry
usbg_lookup_function_type(name) ==
    LET hit == {i \in 0..(Len(function_names) - 1) : function_names[i + 1] = name}
    IN  IF hit = {} THEN -1 ELSE SetMin(hit)

\* usbg_get_function_type_str: NULL for a type outside the guard
usbg_get_function_type_str(type) ==
    IF type > 0 /\ type < Len(function_names)
    THEN function_names[type + 1] ELSE NULL

\* usbg_split_function_instance_type that looks for the last '.'
usbg_split_function_instance_type_last(full_name) ==
    LET dot == strrchr(full_name, CH_DOT)
        type_name == SubSeq(full_name, 1, dot - 1)
        inst == SubSeq(full_name, dot + 1, Len(full_name))
        f_type_ret == usbg_lookup_function_type(type_name)
    IN  IF dot = 0 \/ dot = 1 \/ dot = Len(full_name)
        THEN [ret |-> USBG_ERROR_INVALID_PARAM, type |-> -1, instance |-> <<>>]
        ELSE IF f_type_ret >= 0
        THEN [ret |-> USBG_SUCCESS, type |-> f_type_ret, instance |-> inst]
        ELSE [ret |-> USBG_ERROR_NOT_SUPPORTED, type |-> -1, instance |-> inst]

usbg_split_function_instance_type(full_name) ==
    LET dot == strchr(full_name, CH_DOT)
        type_name == SubSeq(full_name, 1, dot - 1)
        inst == SubSeq(full_name, dot + 1, Len(full_name))
        f_type_ret == usbg_lookup_function_type(type_name)
    IN  IF dot = 0 \/ dot = 1 \/ dot = Len(full_name)
        THEN [ret |-> USBG_ERROR_INVALID_PARAM, type |-> -1, instance |-> <<>>]
        ELSE IF f_type_ret >= 0
        THEN [ret |-> USBG_SUCCESS, type |-> f_type_ret, instance |-> inst]
        ELSE [ret |-> USBG_ERROR_NOT_SUPPORTED, type |-> -1, instance |-> inst]

\* strtol(s, &endptr, 10) followed by the conversion of the long to int.
\* s starts with no white space here.  The digits are folded into two
\* 16-bit limbs (hi, lo) of the value modulo 2^32; big says that the value
\* does not fit a 64-bit long (errno = ERANGE).
RECURSIVE FoldDigits(_, _, _, _)
FoldDigits(s, i, hi, lo) ==
    IF i > Len(s) \/ ~isdigit(s[i]) THEN [hi |-> hi, lo |-> lo, endp |-> i]
    ELSE LET l == lo * 10 + (s[i] - CH_ZERO)
         IN  FoldDigits(s, i + 1, (hi * 10 + l \div 65536) % 65536, l % 65536)

LONG_MAX_DIGITS == <<57, 50, 50, 51, 51, 55, 50, 48, 51, 54, 56, 53, 52, 55, 55, 53, 56, 48, 55>>

LONG_MIN_DIGITS == <<57, 50, 50, 51, 51, 55, 50, 48, 51, 54, 56, 53, 52, 55, 55, 53, 56, 48, 56>>

RECURSIVE StripZeros(_)
StripZeros(d) == IF Len(d) > 1 /\ d[1] = CH_ZERO THEN StripZeros(Tail(d)) ELSE d

strtol_int(s) ==
    LET neg == Len(s) > 0 /\ s[1] = CH_MINUS
        start == IF Len(s) > 0 /\ s[1] \in {CH_MINUS, CH_PLUS} THEN 2 ELSE 1
        f == FoldDigits(s, start, 0, 0)
        nodigits == f.endp = start
        digits == StripZeros(SubSeq(s, start, f.endp - 1))
        big == ~nodigits /\
               (Len(digits) > Len(LONG_MAX_DIGITS)
                \/ (Len(digits) = Len(LONG_MAX_DIGITS)
                    /\ strcmp(digits, IF neg THEN LONG_MIN_DIGITS
                                      ELSE LONG_MAX_DIGITS) > 0))
        \* the low 32 bits of the magnitude, as a signed int
        mag == IF f.hi >= 32768 THEN (f.hi - 65536) * 65536 + f.lo
               ELSE f.hi * 65536 + f.lo
        val == IF neg /\ ~(f.hi = 32768 /\ f.lo = 0) THEN 0 - mag ELSE mag
    IN  [val |-> IF nodigits THEN 0 ELSE val,
         endp |-> IF nodigits THEN 1 ELSE f.endp,
         erange |-> big]

usbg_split_config_label_id(full_name) ==
    LET dot == strrchr(full_name, CH_DOT)
        id_string == SubSeq(full_name, dot + 1, Len(full_name))
        lab == SubSeq(full_name, 1, dot - 1)
    IN  IF dot = 0 \/ dot = 1 \/ id_string = <<>> \/ isspace(id_string[1])
        THEN [ret |-> USBG_ERROR_INVALID_PARAM, label |-> NULL]
        ELSE The({ IF r.erange
                   THEN [ret |-> usbg_translate_error(ERANGE), label |-> NULL]
                   ELSE IF r.endp <= Len(id_string) \/ r.val < 0 \/ r.val > 255
                   THEN [ret |-> USBG_ERROR_INVALID_PARAM, label |-> lab]
                   ELSE [ret |-> r.val, label |-> lab]
                   : r \in {strtol_int(id_string)} })


(***************************************************************************)
(* EntityGraph.  A graph G = [gadgets, g, f, c, b]: the head of            *)
(* s->gadgets and the gadget, function, config and binding nodes, each a   *)
(* function from node addresses to the fields of the struct.               *)
(***************************************************************************)
EmptyGraph == [gadgets |-> TAILQ_INIT, g |-> <<>>, f |-> <<>>, c |-> <<>>, b |-> <<>>]

Drop(N, keys) == [n \in DOMAIN N \ keys |-> N[n]]

\* usbg_allocate_gadget .. usbg_allocate_binding: the fields of a new node
\* (tqe_next, tqe_prev and udc are set by the caller)
usbg_allocate_gadget(path, name) ==
    [name |-> name, path |-> path, udc |-> STR_EMPTY,
     next |-> NULL, prev |-> HEADP,
     configs |-> TAILQ_INIT, functions |-> TAILQ_INIT]

usbg_allocate_config(path, label, id, parent) ==
    [name |-> label \o <<CH_DOT>> \o FmtDec(id), path |-> path,
     label |-> label, id |-> id, parent |-> parent,
     next |-> NULL, prev |-> HEADP, bindings |-> TAILQ_INIT]

\* NULL when usbg_get_function_type_str has no string for the type
usbg_allocate_function(path, type, instance, parent) ==
    LET type_name == usbg_get_function_type_str(type)
    IN  IF type_name = NULL THEN NULL
        ELSE [name |-> type_name \o <<CH_DOT>> \o instance, path |-> path,
              instance |-> instance, type |-> type, parent |-> parent,
              next |-> NULL, prev |-> HEADP]

usbg_allocate_binding(path, name, parent) ==
    [name |-> name, path |-> path, parent |-> parent, target |-> NULL,
     next |-> NULL, prev |-> HEADP, freed |-> FALSE]

\* The queues of the graph as [h, N] pairs, and their write-back.
GadgetQ(G) == [h |-> G.gadgets, N |-> G.g]
FunctionQ(G, g) == [h |-> G.g[g].functions, N |-> G.f]
ConfigQ(G, g) == [h |-> G.g[g].configs, N |-> G.c]
BindingQ(G, c) == [h |-> G.c[c].bindings, N |-> G.b]

PutGadgetQ(G, Q) == [G EXCEPT !.gadgets = Q.h, !.g = Q.N]
PutFunctionQ(G, g, Q) == [G EXCEPT !.f = Q.N, !.g[g].functions = Q.h]
PutConfigQ(G, g, Q) == [G EXCEPT !.c = Q.N, !.g[g].configs = Q.h]
PutBindingQ(G, c, Q) == [G EXCEPT !.b = Q.N, !.c[c].bindings = Q.h]

\* first/next traversal of each collection (usbg_get_first_*, usbg_get_next_*)
Gadgets(G) == TAILQ_FOREACH(G.gadgets, G.g)
Functions(G, g) == TAILQ_FOREACH(G.g[g].functions, G.f)
Configs(G, g) == TAILQ_FOREACH(G.g[g].configs, G.c)
Bindings(G, c) == TAILQ_FOREACH(G.c[c].bindings, G.b)

Range(seq) == {seq[i] : i \in 1..Len(seq)}

\* The first node of a traversal that is in hit, NULL when none is.
FirstIn(seq, hit) ==
    LET at == {i \in 1..Len(seq) : seq[i] \in hit}
    IN  IF at = {} THEN NULL ELSE seq[SetMin(at)]

usbg_get_gadget(G, name) ==
    FirstIn(Gadgets(G), {n \in DOMAIN G.g : G.g[n].name = name})

\* usbg_get_function that finds no function
usbg_get_function_none(G, g, type, instance) == NULL

usbg_get_function(G, g, type, instance) ==
    FirstIn(Functions(G, g),
            {n \in DOMAIN G.f : G.f[n].type = type /\ G.f[n].instance = instance})

\* label = NULL matches every label
usbg_get_config(G, g, id, label) ==
    FirstIn(Configs(G, g),
            {n \in DOMAIN G.c : G.c[n].id = id
                                /\ (label = NULL \/ G.c[n].label = label)})

usbg_get_binding(G, c, name) ==
    FirstIn(Bindings(G, c), {n \in DOMAIN G.b : G.b[n].name = name})

usbg_get_link_binding(G, c, f) ==
    FirstIn(Bindings(G, c), {n \in DOMAIN G.b : G.b[n].target = f})

usbg_get_binding_target(G, b) == IF b # NULL THEN G.b[b].target ELSE NULL

\* usbg_free_config / usbg_free_gadget: the node and the nodes it owns
usbg_free_config(G, c) ==
    [G EXCEPT !.b = Drop(@, {n \in DOMAIN @ : @[n].parent = c}),
              !.c = Drop(@, {c})]

usbg_free_gadget(G, g) ==
    LET cs == {n \in DOMAIN G.c : G.c[n].parent = g}
    IN  [G EXCEPT !.b = Drop(@, {n \in DOMAIN @ : @[n].parent \in cs}),
                  !.c = Drop(@, cs),
                  !.f = Drop(@, {n \in DOMAIN @ : @[n].parent = g}),
                  !.g = Drop(@, {g})]

\* usbg_free_state: every gadget of s->gadgets is taken off the queue and
\* released with what it owns
RECURSIVE FreeGadgets(_, _, _)
FreeGadgets(G, gs, i) ==
    IF i > Len(gs) THEN [G EXCEPT !.gadgets = TAILQ_INIT]
    ELSE FreeGadgets(usbg_free_gadget(G, gs[i]), gs, i + 1)

\* usbg_free_state that releases the gadget nodes of the queue and none of
\* the functions, configs and bindings they own
usbg_free_state_shallow(G) ==
    [G EXCEPT !.gadgets = TAILQ_INIT, !.g = Drop(@, Range(Gadgets(G)))]

usbg_free_state(G) == FreeGadgets(G, Gadgets(G), 1)


(***************************************************************************)
(* TreeDiscovery: usbg_parse_functions .. usbg_init.  Every operator       *)
(* returns [w, G, ret].                                                    *)
(***************************************************************************)
RECURSIVE ParseFunctionsLoop(_, _, _, _, _, _)
ParseFunctionsLoop(w, G, fpath, g, names, i) ==
    LET k == Join2(fpath, names[i])
        Linked(G1) == PutFunctionQ(G1, g, TAILQ_INSERT_TAIL(FunctionQ(G1, g), k))
    IN  IF i > Len(names) THEN [w |-> w, G |-> G, ret |-> USBG_SUCCESS]
        ELSE The({
            IF sp.ret # USBG_SUCCESS THEN [w |-> w, G |-> G, ret |-> sp.ret]
            ELSE The({
                IF ~a.ok \/ f = NULL
                THEN [w |-> a.w, G |-> G, ret |-> USBG_ERROR_NO_MEM]
                ELSE ParseFunctionsLoop(a.w, Linked([G EXCEPT !.f = (k :> f) @@ @]),
                                        fpath, g, names, i + 1)
                : a \in {Alloc(w)},
                  f \in {usbg_allocate_function(fpath, sp.type, sp.instance, g)} })
            : sp \in {usbg_split_function_instance_type(names[i])} })

usbg_parse_functions(w, G, path, g) ==
    LET fpath == Join3(path, G.g[g].name, FUNCTIONS_DIR)
    IN  IF Len(fpath) >= USBG_MAX_PATH_LENGTH
        THEN [w |-> w, G |-> G, ret |-> USBG_ERROR_PATH_TOO_LONG]
        ELSE The({ IF sd.rc < 0
                   THEN [w |-> sd.w, G |-> G, ret |-> usbg_translate_error(sd.errno)]
                   ELSE ParseFunctionsLoop(sd.w, G, fpath, g, sd.names, 1)
                   : sd \in {sys_scandir(w, fpath, FALSE)} })

\* usbg_parse_config_binding that passes over a link to no known function
usbg_parse_config_binding_tolerant(w, G, c, bpath, name) ==
    LET k == Join2(c, name)
        Linked(G1) == PutBindingQ(G1, c, TAILQ_INSERT_TAIL(BindingQ(G1, c), k))
        New(f) == [usbg_allocate_binding(bpath, name, c) EXCEPT !.target = f]
    IN  The({
            IF rl.rc < 0
            THEN [w |-> rl.w, G |-> G, ret |-> usbg_translate_error(rl.errno)]
            ELSE The({
                IF sp.ret # USBG_SUCCESS THEN [w |-> rl.w, G |-> G, ret |-> sp.ret]
                ELSE The({
                    IF f = NULL
                    THEN [w |-> rl.w, G |-> G, ret |-> USBG_SUCCESS]
                    ELSE The({
                        IF ~a.ok THEN [w |-> a.w, G |-> G, ret |-> USBG_ERROR_NO_MEM]
                        ELSE [w |-> a.w, ret |-> USBG_SUCCESS,
                              G |-> Linked([G EXCEPT !.b = (k :> New(f)) @@ @])]
                        : a \in {Alloc(rl.w)} })
                    : f \in {usbg_get_function(G, G.c[c].parent, sp.type,
                                               sp.instance)} })
                : sp \in {usbg_split_function_instance_type(Basename(rl.target))} })
            : rl \in {sys_readlink(w, Join2(bpath, name))} })

\* c is the config node, bpath the directory scanned ("<c->path>/<c->name>")
\* and name the link's name
usbg_parse_config_binding(w, G, c, bpath, name) ==
    LET k == Join2(c, name)
        Linked(G1) == PutBindingQ(G1, c, TAILQ_INSERT_TAIL(BindingQ(G1, c), k))
        New(f) == [usbg_allocate_binding(bpath, name, c) EXCEPT !.target = f]
    IN  The({
            IF rl.rc < 0
            THEN [w |-> rl.w, G |-> G, ret |-> usbg_translate_error(rl.errno)]
            ELSE The({
                IF sp.ret # USBG_SUCCESS THEN [w |-> rl.w, G |-> G, ret |-> sp.ret]
                ELSE The({
                    IF f = NULL
                    THEN [w |-> rl.w, G |-> G, ret |-> USBG_ERROR_OTHER_ERROR]
                    ELSE The({
                        IF ~a.ok THEN [w |-> a.w, G |-> G, ret |-> USBG_ERROR_NO_MEM]
                        ELSE [w |-> a.w, ret |-> USBG_SUCCESS,
                              G |-> Linked([G EXCEPT !.b = (k :> New(f)) @@ @])]
                        : a \in {Alloc(rl.w)} })
                    : f \in {usbg_get_function(G, G.c[c].parent, sp.type,
                                               sp.instance)} })
                : sp \in {usbg_split_function_instance_type(Basename(rl.target))} })
            : rl \in {sys_readlink(w, Join2(bpath, name))} })

RECURSIVE ParseBindingsLoop(_, _, _, _, _, _)
ParseBindingsLoop(w, G, c, bpath, names, i) ==
    IF i > Len(names) THEN [w |-> w, G |-> G, ret |-> USBG_SUCCESS]
    ELSE IF ~(Len(names[i]) + 1 < USBG_MAX_PATH_LENGTH - Len(bpath))
    THEN [w |-> w, G |-> G, ret |-> USBG_ERROR_PATH_TOO_LONG]
    ELSE The({ IF r.ret # USBG_SUCCESS THEN r
               ELSE ParseBindingsLoop(r.w, r.G, c, bpath, names, i + 1)
               : r \in {usbg_parse_config_binding(w, G, c, bpath, names[i])} })

usbg_parse_config_bindings(w, G, c) ==
    LET bpath == Join2(G.c[c].path, G.c[c].name)
    IN  IF Len(bpath) >= USBG_MAX_PATH_LENGTH
        THEN [w |-> w, G |-> G, ret |-> USBG_ERROR_PATH_TOO_LONG]
        ELSE The({ IF sd.rc < 0
                   THEN [w |-> sd.w, G |-> G, ret |-> usbg_translate_error(sd.errno)]
                   ELSE ParseBindingsLoop(sd.w, G, c, bpath, sd.names, 1)
                   : sd \in {sys_scandir(w, bpath, TRUE)} })

\* name is the directory entry; the node's name is composed again from
\* the label and the id the split returns
usbg_parse_config(w, G, path, name, g) ==
    LET k == Join2(path, name)
    IN  The({
            IF sp.ret <= 0 THEN [w |-> w, G |-> G, ret |-> sp.ret]
            ELSE The({
                IF ~a.ok THEN [w |-> a.w, G |-> G, ret |-> USBG_ERROR_NO_MEM]
                ELSE The({
                    IF r.ret = USBG_SUCCESS
                    THEN [r EXCEPT !.G = PutConfigQ(@, g,
                                             TAILQ_INSERT_TAIL(ConfigQ(@, g), k))]
                    ELSE [r EXCEPT !.G = usbg_free_config(@, k)]
                    : r \in {usbg_parse_config_bindings(a.w,
                        [G EXCEPT !.c = (k :> usbg_allocate_config(path, sp.label,
                                                    sp.ret, g)) @@ @], k)} })
                : a \in {Alloc(w)} })
            : sp \in {usbg_split_config_label_id(name)} })

RECURSIVE ParseConfigsLoop(_, _, _, _, _, _)
ParseConfigsLoop(w, G, cpath, g, names, i) ==
    IF i > Len(names) THEN [w |-> w, G |-> G, ret |-> USBG_SUCCESS]
    ELSE The({ IF r.ret # USBG_SUCCESS THEN r
               ELSE ParseConfigsLoop(r.w, r.G, cpath, g, names, i + 1)
               : r \in {usbg_parse_config(w, G, cpath, names[i], g)} })

usbg_parse_configs(w, G, path, g) ==
    LET cpath == Join3(path, G.g[g].name, CONFIGS_DIR)
    IN  IF Len(cpath) >= USBG_MAX_PATH_LENGTH
        THEN [w |-> w, G |-> G, ret |-> USBG_ERROR_PATH_TOO_LONG]
        ELSE The({ IF sd.rc < 0
                   THEN [w |-> sd.w, G |-> G, ret |-> usbg_translate_error(sd.errno)]
                   ELSE ParseConfigsLoop(sd.w, G, cpath, g, sd.names, 1)
                   : sd \in {sys_scandir(w, cpath, FALSE)} })

usbg_parse_gadget(w, G, g) ==
    The({
        IF rd.ret # USBG_SUCCESS
        THEN [w |-> rd.w, G |-> [G EXCEPT !.g[g].udc = rd.buf], ret |-> rd.ret]
        ELSE The({
            IF pf.ret # USBG_SUCCESS THEN pf
            ELSE usbg_parse_configs(pf.w, pf.G, G.g[g].path, g)
            : pf \in {usbg_parse_functions(rd.w, [G EXCEPT !.g[g].udc = rd.buf],
                                           G.g[g].path, g)} })
        : rd \in {usbg_read_string(w, G.g[g].path, G.g[g].name, STR_UDC)} })

RECURSIVE ParseGadgetsLoop(_, _, _, _, _)
ParseGadgetsLoop(w, G, path, names, i) ==
    LET k == Join2(path, names[i])
    IN  IF i > Len(names) THEN [w |-> w, G |-> G, ret |-> USBG_SUCCESS]
        ELSE The({
            IF ~a.ok THEN [w |-> a.w, G |-> G, ret |-> USBG_ERROR_NO_MEM]
            ELSE The({
                IF r.ret # USBG_SUCCESS
                THEN [r EXCEPT !.G = usbg_free_gadget(@, k)]
                ELSE ParseGadgetsLoop(r.w,
                         PutGadgetQ(r.G, TAILQ_INSERT_TAIL(GadgetQ(r.G), k)),
                         path, names, i + 1)
                : r \in {usbg_parse_gadget(a.w,
                    [G EXCEPT !.g = (k :> usbg_allocate_gadget(path, names[i])) @@ @],
                    k)} })
            : a \in {Alloc(w)} })

usbg_parse_gadgets(w, path) ==
    The({ IF sd.rc >= 0 THEN ParseGadgetsLoop(sd.w, EmptyGraph, path, sd.names, 1)
          ELSE [w |-> sd.w, G |-> EmptyGraph, ret |-> usbg_translate_error(sd.errno)]
          : sd \in {sys_scandir(w, path, FALSE)} })

\* usbg_init: live says whether *state is a state the caller may use; G
\* holds the nodes that are still allocated when the call returns
usbg_init(w, configfs_path) ==
    LET path == Join2(configfs_path, STR_usb_gadget)
        Failed(w1, ret) ==
            [w |-> w1, G |-> EmptyGraph, live |-> FALSE, path |-> NULL, ret |-> ret]
    IN  The({
            IF ~ap.ok THEN Failed(ap.w, USBG_ERROR_NO_MEM)
            ELSE The({
                IF dir.rc # 0 THEN Failed(dir.w, usbg_translate_error(dir.errno))
                ELSE The({
                    IF ~a.ok THEN Failed(a.w, USBG_ERROR_NO_MEM)
                    ELSE The({
                        IF r.ret # USBG_SUCCESS
                        THEN [Failed(r.w, r.ret) EXCEPT !.G = usbg_free_state(r.G)]
                        ELSE [w |-> r.w, G |-> r.G, live |-> TRUE, path |-> path,
                              ret |-> USBG_SUCCESS]
                        : r \in {usbg_parse_gadgets(a.w, path)} })
                    : a \in {Alloc(dir.w)} })
                : dir \in {sys_opendir(ap.w, path)} })
            : ap \in {Alloc(w)} })


(***************************************************************************)
(* MutationOps.  Every operator returns [w, G, ret, ...]; crash says that  *)
(* the call dereferenced a NULL pointer.                                   *)
(***************************************************************************)
LANG_US_ENG_STR == <<48, 120, 52, 48, 57>>                 \* "0x%x" of 0x409
DEFAULT_CONFIG_LABEL == <<99, 111, 110, 102, 105, 103>>    \* "config"
UDC_LIST_DIR == <<47, 115, 121, 115, 47, 99, 108, 97, 115, 115, 47, 117, 100, 99>> \* "/sys/class/udc"

\* What a create operation did with the node it allocated and with its
\* output parameter.  out is what *g, *f or *c holds when the call returns
\* (set = FALSE: the call never assigned it), alloc the addresses of the
\* nodes the call allocated, freed those of the nodes it released.
Unset == [set |-> FALSE, node |-> NULL]
Points(n) == [set |-> TRUE, node |-> n]
Node(out, alloc, freed) == [out |-> out, alloc |-> alloc, freed |-> freed]
NoNode == Node(Unset, {}, {})

\* A sequence of attribute writes <<file, kind, value>> that stops at the
\* first failure; kind is a format of usbg_write_int or "%s".
RECURSIVE WriteAll(_, _, _, _, _)
WriteAll(w, path, name, writes, i) ==
    LET Written(r) ==
            IF r.ret # USBG_SUCCESS THEN r
            ELSE WriteAll(r.w, path, name, writes, i + 1)
        Write(wr) ==
            IF wr[2] = "%s" THEN usbg_write_string(w, path, name, wr[1], wr[3])
            ELSE usbg_write_int(w, path, name, wr[1], wr[3], wr[2])
    IN  IF i > Len(writes) THEN [w |-> w, ret |-> USBG_SUCCESS]
        ELSE Written(Write(writes[i]))

usbg_set_gadget_attrs(w, g, g_attrs) ==
    WriteAll(w, g.path, g.name,
        << << <<98, 99, 100, 85, 83, 66>>, "0x%04x\n", g_attrs.bcdUSB >>,
           << <<98, 68, 101, 118, 105, 99, 101, 67, 108, 97, 115, 115>>,
              "0x%02x\n", g_attrs.bDeviceClass >>,
           << <<98, 68, 101, 118, 105, 99, 101, 83, 117, 98, 67, 108, 97, 115, 115>>,
              "0x%02x\n", g_attrs.bDeviceSubClass >>,
           << <<98, 68, 101, 118, 105, 99, 101, 80, 114, 111, 116, 111, 99, 111, 108>>,
              "0x%02x\n", g_attrs.bDeviceProtocol >>,
           << <<98, 77, 97, 120, 80, 97, 99, 107, 101, 116, 83, 105, 122, 101, 48>>,
              "0x%02x\n", g_attrs.bMaxPacketSize0 >>,
           << <<105, 100, 86, 101, 110, 100, 111, 114>>, "0x%04x\n", g_attrs.idVendor >>,
           << <<105, 100, 80, 114, 111, 100, 117, 99, 116>>, "0x%04x\n", g_attrs.idProduct >>,
           << <<98, 99, 100, 68, 101, 118, 105, 99, 101>>, "0x%04x\n", g_attrs.bcdDevice >> >>,
        1)

usbg_check_dir(w, path) ==
    LET Made(mk) ==
            IF mk.rc # 0 THEN [w |-> mk.w, ret |-> usbg_translate_error(mk.errno)]
            ELSE [w |-> mk.w, ret |-> USBG_SUCCESS]
        Opened(dir) ==
            IF dir.rc = 0 THEN [w |-> dir.w, ret |-> USBG_SUCCESS]
            ELSE IF dir.errno # ENOENT
            THEN [w |-> dir.w, ret |-> usbg_translate_error(dir.errno)]
            ELSE Made(sys_mkdir(dir.w, path))
    IN  Opened(sys_opendir(w, path))

usbg_set_gadget_strs(w, g, g_strs) ==
    LET path == g.path \o <<CH_SLASH>> \o g.name \o <<CH_SLASH>> \o STRINGS_DIR
                \o <<CH_SLASH>> \o LANG_US_ENG_STR
        Checked(cd) ==
            IF cd.ret # USBG_SUCCESS THEN cd
            ELSE WriteAll(cd.w, path, STR_EMPTY,
                << << <<115, 101, 114, 105, 97, 108, 110, 117, 109, 98, 101, 114>>,
                      "%s", g_strs.str_ser >>,
                   << <<109, 97, 110, 117, 102, 97, 99, 116, 117, 114, 101, 114>>,
                      "%s", g_strs.str_mnf >>,
                   << <<112, 114, 111, 100, 117, 99, 116>>, "%s", g_strs.str_prd >> >>,
                1)
    IN  IF Len(path) >= USBG_MAX_PATH_LENGTH
        THEN [w |-> w, ret |-> USBG_ERROR_PATH_TOO_LONG]
        ELSE Checked(usbg_check_dir(w, path))

\* usbg_create_empty_gadget that does not look at the length of gpath
usbg_create_empty_gadget_unbounded(w, s, name) ==
    LET gpath == Join2(s.path, name)
        gad == usbg_allocate_gadget(s.path, name)
        Removed(rm, ret) ==
            [w |-> rm.w, ret |-> ret, gad |-> NULL]
                @@ Node(Points(NULL), {gpath}, {gpath})
        Read(rd) ==
            IF rd.ret # USBG_SUCCESS THEN Removed(sys_rmdir(rd.w, gpath), rd.ret)
            ELSE [w |-> rd.w, ret |-> USBG_SUCCESS,
                  gad |-> [gad EXCEPT !.udc = rd.buf]]
                     @@ Node(Points(gpath), {gpath}, {})
        Made(mk) ==
            IF mk.rc # 0
            THEN [w |-> mk.w, ret |-> usbg_translate_error(mk.errno), gad |-> NULL]
                     @@ Node(Points(NULL), {gpath}, {gpath})
            ELSE Read(usbg_read_string(mk.w, gad.path, gad.name, STR_UDC))
        Allocated(a) ==
            IF ~a.ok THEN [w |-> a.w, ret |-> USBG_ERROR_NO_MEM, gad |-> NULL]
                              @@ Node(Points(NULL), {}, {})
            ELSE Made(sys_mkdir(a.w, gpath))
    IN  Allocated(Alloc(w))

\* gad is the node for *g (NULL when *g is NULL), not yet in any queue;
\* the node has the address gpath
usbg_create_empty_gadget(w, s, name) ==
    LET gpath == Join2(s.path, name)
        gad == usbg_allocate_gadget(s.path, name)
        Removed(rm, ret) ==
            [w |-> rm.w, ret |-> ret, gad |-> NULL]
                @@ Node(Points(NULL), {gpath}, {gpath})
        Read(rd) ==
            IF rd.ret # USBG_SUCCESS THEN Removed(sys_rmdir(rd.w, gpath), rd.ret)
            ELSE [w |-> rd.w, ret |-> USBG_SUCCESS,
                  gad |-> [gad EXCEPT !.udc = rd.buf]]
                     @@ Node(Points(gpath), {gpath}, {})
        Made(mk) ==
            IF mk.rc # 0
            THEN [w |-> mk.w, ret |-> usbg_translate_error(mk.errno), gad |-> NULL]
                     @@ Node(Points(NULL), {gpath}, {gpath})
            ELSE Read(usbg_read_string(mk.w, gad.path, gad.name, STR_UDC))
        Allocated(a) ==
            IF ~a.ok THEN [w |-> a.w, ret |-> USBG_ERROR_NO_MEM, gad |-> NULL]
                              @@ Node(Points(NULL), {}, {})
            ELSE Made(sys_mkdir(a.w, gpath))
    IN  IF Len(gpath) >= USBG_MAX_PATH_LENGTH
        THEN [w |-> w, ret |-> USBG_ERROR_PATH_TOO_LONG, gad |-> NULL] @@ NoNode
        ELSE Allocated(Alloc(w))

\* The new gadget node linked into s->gadgets in string order
InsertGadget(G, s, gad) ==
    LET k == Join2(s.path, gad.name)
        G1 == [G EXCEPT !.g = (k :> gad) @@ @]
    IN  PutGadgetQ(G1, INSERT_TAILQ_STRING_ORDER(GadgetQ(G1), k))

\* idVendor and idProduct are written with usbg_write_hex16; a failure of
\* the first write neither inserts nor frees the node
usbg_create_gadget_vid_pid(w, G, s, name, idVendor, idProduct) ==
    LET Product(e, pr) ==
            IF pr.ret = USBG_SUCCESS
            THEN [w |-> pr.w, G |-> InsertGadget(G, s, e.gad), ret |-> USBG_SUCCESS]
                     @@ Node(e.out, e.alloc, {})
            ELSE [w |-> pr.w, G |-> G, ret |-> pr.ret]
                     @@ Node(e.out, e.alloc, e.alloc)
        Vendor(e, vn) ==
            IF vn.ret # USBG_SUCCESS
            THEN [w |-> vn.w, G |-> G, ret |-> vn.ret] @@ Node(e.out, e.alloc, {})
            ELSE Product(e, usbg_write_hex16(vn.w, s.path, name,
                                <<105, 100, 80, 114, 111, 100, 117, 99, 116>>,
                                idProduct))
        Empty(e) ==
            IF e.ret # USBG_SUCCESS
            THEN [w |-> e.w, G |-> G, ret |-> e.ret] @@ Node(e.out, e.alloc, e.freed)
            ELSE Vendor(e, usbg_write_hex16(e.w, s.path, name,
                               <<105, 100, 86, 101, 110, 100, 111, 114>>, idVendor))
    IN  IF usbg_get_gadget(G, name) # NULL
        THEN [w |-> w, G |-> G, ret |-> USBG_ERROR_EXIST] @@ NoNode
        ELSE Empty(usbg_create_empty_gadget(w, s, name))

\* g_attrs and g_strs are NULL or the caller's values
usbg_create_gadget(w, G, s, name, g_attrs, g_strs) ==
    LET Done(e, st) ==
            IF st.ret = USBG_SUCCESS
            THEN [w |-> st.w, G |-> InsertGadget(G, s, e.gad), ret |-> USBG_SUCCESS]
                     @@ Node(e.out, e.alloc, {})
            ELSE \* usbg_free_gadget(gad); *g keeps the pointer
                 [w |-> st.w, G |-> G, ret |-> st.ret]
                     @@ Node(e.out, e.alloc, e.alloc)
        \* the result of the strings replaces the result of the attributes
        Attrs(e, at) ==
            IF g_strs # NULL THEN Done(e, usbg_set_gadget_strs(at.w, e.gad, g_strs))
            ELSE Done(e, at)
        Empty(e) ==
            IF e.ret # USBG_SUCCESS
            THEN [w |-> e.w, G |-> G, ret |-> e.ret] @@ Node(e.out, e.alloc, e.freed)
            ELSE IF g_attrs # NULL
            THEN Attrs(e, usbg_set_gadget_attrs(e.w, e.gad, g_attrs))
            ELSE Attrs(e, [w |-> e.w, ret |-> e.ret])
    IN  IF usbg_get_gadget(G, name) # NULL
        THEN [w |-> w, G |-> G, ret |-> USBG_ERROR_EXIST] @@ NoNode
        ELSE Empty(usbg_create_empty_gadget(w, s, name))

usbg_set_function_net_attrs(w, f, attrs) ==
    WriteAll(w, f.path, f.name,
        << << <<100, 101, 118, 95, 97, 100, 100, 114>>, "%s", attrs.dev_addr >>,
           << <<104, 111, 115, 116, 95, 97, 100, 100, 114>>, "%s", attrs.host_addr >>,
           << <<105, 102, 110, 97, 109, 101>>, "%s", attrs.ifname >>,
           << <<113, 109, 117, 108, 116>>, "%d\n", attrs.qmult >> >>,
        1)

\* f_attrs is the union usbg_function_attrs as a record with every member
usbg_set_function_attrs(w, f, f_attrs) ==
    CASE f.type \in {F_SERIAL, F_ACM, F_OBEX} ->
            usbg_write_dec(w, f.path, f.name,
                <<112, 111, 114, 116, 95, 110, 117, 109>>, f_attrs.port_num)
      [] f.type \in {F_ECM, F_SUBSET, F_NCM, F_EEM, F_RNDIS} ->
            usbg_set_function_net_attrs(w, f, f_attrs)
      [] f.type = F_PHONET ->
            usbg_write_string(w, f.path, f.name,
                <<105, 102, 110, 97, 109, 101>>, f_attrs.ifname)
      [] OTHER -> [w |-> w, ret |-> USBG_ERROR_NOT_SUPPORTED]

\* snprintf(buf + n, free_space, "/%s", name): the buffer afterwards, cut
\* to what fits
AppendCut(buf, name) ==
    LET full == buf \o <<CH_SLASH>> \o name
    IN  IF Len(full) < USBG_MAX_PATH_LENGTH THEN full
        ELSE SubSeq(full, 1, USBG_MAX_PATH_LENGTH - 1)

InsertFunction(G, g, func) ==
    LET k == Join2(func.path, func.name)
        G1 == [G EXCEPT !.f = (k :> func) @@ @]
    IN  PutFunctionQ(G1, g, INSERT_TAILQ_STRING_ORDER(FunctionQ(G1, g), k))

\* usbg_create_function that removes the directory when mkdir has failed
usbg_create_function_undoing(w, G, g, type, instance, f_attrs) ==
    LET fpath == Join3(G.g[g].path, G.g[g].name, FUNCTIONS_DIR)
        n == Len(fpath)
        free_space == USBG_MAX_PATH_LENGTH - n
        At(func) == Join2(func.path, func.name)
        Done(func, r) ==
            IF r.ret = USBG_SUCCESS
            THEN [w |-> r.w, G |-> InsertFunction(G, g, func), ret |-> r.ret,
                  crash |-> FALSE] @@ Node(Points(At(func)), {At(func)}, {})
            ELSE \* usbg_free_function(func); *f keeps the pointer
                 [w |-> r.w, G |-> G, ret |-> r.ret, crash |-> FALSE]
                     @@ Node(Points(At(func)), {At(func)}, {At(func)})
        Made(func, mk) ==
            IF mk.rc # 0
            THEN Done(func, [w |-> sys_rmdir(mk.w, AppendCut(fpath, func.name)).w,
                             ret |-> usbg_translate_error(mk.errno)])
            ELSE IF f_attrs # NULL
            THEN Done(func, usbg_set_function_attrs(mk.w, func, f_attrs))
            ELSE Done(func, [w |-> mk.w, ret |-> USBG_SUCCESS])
        Allocated(a, func) ==
            IF func = NULL
            THEN \* func->name is read through the NULL pointer
                 [w |-> a.w, G |-> G, ret |-> USBG_ERROR_NO_MEM, crash |-> TRUE]
                     @@ Node(Points(NULL), {}, {})
            ELSE IF Len(func.name) + 1 < free_space
            THEN Made(func, sys_mkdir(a.w, AppendCut(fpath, func.name)))
            ELSE Done(func, [w |-> a.w, ret |-> USBG_ERROR_INVALID_PARAM])
        Alloc_(a) ==
            Allocated(a, IF a.ok THEN usbg_allocate_function(fpath, type, instance, g)
                         ELSE NULL)
    IN  IF usbg_get_function(G, g, type, instance) # NULL
        THEN [w |-> w, G |-> G, ret |-> USBG_ERROR_EXIST, crash |-> FALSE] @@ NoNode
        ELSE IF n >= USBG_MAX_PATH_LENGTH
        THEN [w |-> w, G |-> G, ret |-> USBG_ERROR_PATH_TOO_LONG, crash |-> FALSE]
                 @@ NoNode
        ELSE Alloc_(Alloc(w))

usbg_create_function(w, G, g, type, instance, f_attrs) ==
    LET fpath == Join3(G.g[g].path, G.g[g].name, FUNCTIONS_DIR)
        n == Len(fpath)
        free_space == USBG_MAX_PATH_LENGTH - n
        At(func) == Join2(func.path, func.name)
        Done(func, r) ==
            IF r.ret = USBG_SUCCESS
            THEN [w |-> r.w, G |-> InsertFunction(G, g, func), ret |-> r.ret,
                  crash |-> FALSE] @@ Node(Points(At(func)), {At(func)}, {})
            ELSE \* usbg_free_function(func); *f keeps the pointer
                 [w |-> r.w, G |-> G, ret |-> r.ret, crash |-> FALSE]
                     @@ Node(Points(At(func)), {At(func)}, {At(func)})
        Made(func, mk) ==
            IF mk.rc # 0
            THEN Done(func, [w |-> mk.w, ret |-> usbg_translate_error(mk.errno)])
            ELSE IF f_attrs # NULL
            THEN Done(func, usbg_set_function_attrs(mk.w, func, f_attrs))
            ELSE Done(func, [w |-> mk.w, ret |-> USBG_SUCCESS])
        Allocated(a, func) ==
            IF func = NULL
            THEN \* func->name is read through the NULL pointer
                 [w |-> a.w, G |-> G, ret |-> USBG_ERROR_NO_MEM, crash |-> TRUE]
                     @@ Node(Points(NULL), {}, {})
            ELSE IF Len(func.name) + 1 < free_space
            THEN Made(func, sys_mkdir(a.w, AppendCut(fpath, func.name)))
            ELSE Done(func, [w |-> a.w, ret |-> USBG_ERROR_INVALID_PARAM])
        Alloc_(a) ==
            Allocated(a, IF a.ok THEN usbg_allocate_function(fpath, type, instance, g)
                         ELSE NULL)
    IN  IF usbg_get_function(G, g, type, instance) # NULL
        THEN [w |-> w, G |-> G, ret |-> USBG_ERROR_EXIST, crash |-> FALSE] @@ NoNode
        ELSE IF n >= USBG_MAX_PATH_LENGTH
        THEN [w |-> w, G |-> G, ret |-> USBG_ERROR_PATH_TOO_LONG, crash |-> FALSE]
                 @@ NoNode
        ELSE Alloc_(Alloc(w))

\* c_attrs is tested the wrong way round: the writes are made only for a
\* NULL c_attrs, whose members are then read through the NULL pointer
usbg_set_config_attrs(w, c, c_attrs) ==
    [w |-> w, ret |-> USBG_ERROR_INVALID_PARAM, crash |-> c # NULL /\ c_attrs = NULL]

usbg_set_config_string(w, c, str) ==
    LET path == c.path \o <<CH_SLASH>> \o c.name \o <<CH_SLASH>> \o STRINGS_DIR
                \o <<CH_SLASH>> \o LANG_US_ENG_STR
        Checked(cd) ==
            IF cd.ret # USBG_SUCCESS THEN cd
            ELSE usbg_write_string(cd.w, path, STR_EMPTY,
                    <<99, 111, 110, 102, 105, 103, 117, 114, 97, 116, 105, 111, 110>>,
                    str)
    IN  IF c = NULL \/ str = NULL THEN [w |-> w, ret |-> USBG_ERROR_INVALID_PARAM]
        ELSE IF Len(path) >= USBG_MAX_PATH_LENGTH
        THEN [w |-> w, ret |-> USBG_ERROR_PATH_TOO_LONG]
        ELSE Checked(usbg_check_dir(w, path))

InsertConfig(G, g, conf) ==
    LET k == Join2(conf.path, conf.name)
        G1 == [G EXCEPT !.c = (k :> conf) @@ @]
    IN  PutConfigQ(G1, g, INSERT_TAILQ_STRING_ORDER(ConfigQ(G1, g), k))

\* usbg_create_config that takes every id
usbg_create_config_any_id(w, G, g, id, label0, c_attrs, c_strs) ==
    LET label == IF label0 = NULL THEN DEFAULT_CONFIG_LABEL ELSE label0
        cpath == Join3(G.g[g].path, G.g[g].name, CONFIGS_DIR)
        conf == usbg_allocate_config(cpath, label, id, g)
        ck == Join2(conf.path, conf.name)
        Done(r) ==
            IF r.ret = USBG_SUCCESS
            THEN [w |-> r.w, G |-> InsertConfig(G, g, conf), ret |-> USBG_SUCCESS]
                     @@ Node(Points(ck), {ck}, {})
            ELSE \* usbg_free_config(conf); *c keeps the pointer
                 [w |-> r.w, G |-> G, ret |-> r.ret] @@ Node(Points(ck), {ck}, {ck})
        Attrs(at) ==
            IF at.ret = USBG_SUCCESS /\ c_strs # NULL
            THEN Done(usbg_set_config_string(at.w, conf, c_strs))
            ELSE Done(at)
        \* the path is not checked for its length: mkdir is given the path
        \* as far as it fits the buffer
        Made(mk) ==
            IF mk.rc # 0
            THEN Done([w |-> mk.w, ret |-> usbg_translate_error(mk.errno)])
            ELSE IF c_attrs # NULL
            THEN Attrs(usbg_set_config_attrs(mk.w, conf, c_attrs))
            ELSE Attrs([w |-> mk.w, ret |-> USBG_SUCCESS])
        Allocated(a) ==
            IF ~a.ok THEN [w |-> a.w, G |-> G, ret |-> USBG_ERROR_NO_MEM]
                              @@ Node(Points(NULL), {}, {})
            ELSE Made(sys_mkdir(a.w, AppendCut(cpath, conf.name)))
    IN  IF usbg_get_config(G, g, id, NULL) # NULL
        THEN [w |-> w, G |-> G, ret |-> USBG_ERROR_EXIST] @@ NoNode
        ELSE IF Len(cpath) >= USBG_MAX_PATH_LENGTH
        THEN [w |-> w, G |-> G, ret |-> USBG_ERROR_PATH_TOO_LONG] @@ NoNode
        ELSE Allocated(Alloc(w))

\* label NULL stands for DEFAULT_CONFIG_LABEL; c_strs is NULL or the
\* configuration string
usbg_create_config(w, G, g, id, label0, c_attrs, c_strs) ==
    LET label == IF label0 = NULL THEN DEFAULT_CONFIG_LABEL ELSE label0
        cpath == Join3(G.g[g].path, G.g[g].name, CONFIGS_DIR)
        conf == usbg_allocate_config(cpath, label, id, g)
        ck == Join2(conf.path, conf.name)
        Done(r) ==
            IF r.ret = USBG_SUCCESS
            THEN [w |-> r.w, G |-> InsertConfig(G, g, conf), ret |-> USBG_SUCCESS]
                     @@ Node(Points(ck), {ck}, {})
            ELSE \* usbg_free_config(conf); *c keeps the pointer
                 [w |-> r.w, G |-> G, ret |-> r.ret] @@ Node(Points(ck), {ck}, {ck})
        Attrs(at) ==
            IF at.ret = USBG_SUCCESS /\ c_strs # NULL
            THEN Done(usbg_set_config_string(at.w, conf, c_strs))
            ELSE Done(at)
        \* the path is not checked for its length: mkdir is given the path
        \* as far as it fits the buffer
        Made(mk) ==
            IF mk.rc # 0
            THEN Done([w |-> mk.w, ret |-> usbg_translate_error(mk.errno)])
            ELSE IF c_attrs # NULL
            THEN Attrs(usbg_set_config_attrs(mk.w, conf, c_attrs))
            ELSE Attrs([w |-> mk.w, ret |-> USBG_SUCCESS])
        Allocated(a) ==
            IF ~a.ok THEN [w |-> a.w, G |-> G, ret |-> USBG_ERROR_NO_MEM]
                              @@ Node(Points(NULL), {}, {})
            ELSE Made(sys_mkdir(a.w, AppendCut(cpath, conf.name)))
    IN  IF id <= 0 \/ id > 255
        THEN [w |-> w, G |-> G, ret |-> USBG_ERROR_INVALID_PARAM] @@ NoNode
        ELSE IF usbg_get_config(G, g, id, NULL) # NULL
        THEN [w |-> w, G |-> G, ret |-> USBG_ERROR_EXIST] @@ NoNode
        ELSE IF Len(cpath) >= USBG_MAX_PATH_LENGTH
        THEN [w |-> w, G |-> G, ret |-> USBG_ERROR_PATH_TOO_LONG] @@ NoNode
        ELSE Allocated(Alloc(w))

InsertBinding(G, c, k, b) ==
    LET G1 == [G EXCEPT !.b = (k :> b) @@ @]
    IN  PutBindingQ(G1, c, INSERT_TAILQ_STRING_ORDER(BindingQ(G1, c), k))

\* c and f are the handles of a config and a function
usbg_add_config_function(w, G, c, name, f) ==
    LET fpath == Join2(G.f[f].path, G.f[f].name)
        bpath == Join2(G.c[c].path, G.c[c].name)
        nmb == Len(bpath)
        b == [usbg_allocate_binding(bpath, name, c) EXCEPT !.target = f]
        Linked(sl) ==
            IF sl.rc = 0
            THEN [w |-> sl.w, G |-> InsertBinding(G, c, Join2(c, name), b),
                  ret |-> USBG_SUCCESS]
            ELSE [w |-> sl.w, G |-> G, ret |-> usbg_translate_error(sl.errno)]
        Allocated(a) ==
            IF ~a.ok THEN [w |-> a.w, G |-> G, ret |-> USBG_ERROR_NO_MEM]
            ELSE IF ~(Len(name) + 1 < USBG_MAX_PATH_LENGTH - nmb)
            THEN [w |-> a.w, G |-> G, ret |-> USBG_ERROR_PATH_TOO_LONG]
            ELSE Linked(sys_symlink(a.w, fpath, Join2(bpath, name)))
    IN  IF usbg_get_binding(G, c, name) # NULL
        THEN [w |-> w, G |-> G, ret |-> USBG_ERROR_EXIST]
        ELSE IF usbg_get_link_binding(G, c, f) # NULL
        THEN [w |-> w, G |-> G, ret |-> USBG_ERROR_EXIST]
        ELSE IF Len(fpath) >= USBG_MAX_PATH_LENGTH
        THEN [w |-> w, G |-> G, ret |-> USBG_ERROR_PATH_TOO_LONG]
        ELSE IF nmb >= USBG_MAX_PATH_LENGTH
        THEN [w |-> w, G |-> G, ret |-> USBG_ERROR_PATH_TOO_LONG]
        ELSE Allocated(Alloc(w))

\* usbg_free_binding after TAILQ_REMOVE: the node is gone, unless a pointer
\* of the queue still leads to it; then it stays in the map as freed memory
usbg_free_binding(G, c, b) ==
    LET held == b \in {G.c[c].bindings.first, G.c[c].bindings.last}
                \/ \E n \in DOMAIN G.b \ {b} : b \in {G.b[n].next, G.b[n].prev}
    IN  IF held THEN [G EXCEPT !.b[b].freed = TRUE]
        ELSE [G EXCEPT !.b = Drop(@, {b})]

\* usbg_rm_binding without the test of ret: the node is removed whatever
\* ubsg_rm_file returned
usbg_rm_binding_unchecked(w, G, b) ==
    LET c == G.b[b].parent
        Removed(r) ==
            [w |-> r.w, ret |-> r.ret,
             G |-> usbg_free_binding(
                       PutBindingQ(G, c, TAILQ_REMOVE(BindingQ(G, c), b)), c, b)]
    IN  Removed(ubsg_rm_file(w, G.b[b].path, G.b[b].name))

usbg_rm_binding(w, G, b) ==
    LET c == G.b[b].parent
        Removed(r) ==
            IF r.ret = USBG_SUCCESS
            THEN [w |-> r.w, ret |-> r.ret,
                  G |-> usbg_free_binding(
                            PutBindingQ(G, c, TAILQ_REMOVE(BindingQ(G, c), b)), c, b)]
            ELSE [w |-> r.w, G |-> G, ret |-> r.ret]
    IN  Removed(ubsg_rm_file(w, G.b[b].path, G.b[b].name))

\* usbg_get_udcs whose scandir has no compar function: the entries come in
\* the order of the directory, here the descending one
usbg_get_udcs_unsorted(w) ==
    LET Backwards(names) == [i \in 1..Len(names) |-> names[Len(names) + 1 - i]]
        Scanned(sd) ==
            IF sd.rc < 0
            THEN [w |-> sd.w, ret |-> usbg_translate_error(sd.errno), names |-> <<>>]
            ELSE [w |-> sd.w, ret |-> Len(sd.names), names |-> Backwards(sd.names)]
    IN  Scanned(sys_scandir(w, UDC_LIST_DIR, FALSE))

\* ret is the number of entries or an error; names the entries
usbg_get_udcs(w) ==
    LET Scanned(sd) ==
            IF sd.rc < 0
            THEN [w |-> sd.w, ret |-> usbg_translate_error(sd.errno), names |-> <<>>]
            ELSE [w |-> sd.w, ret |-> Len(sd.names), names |-> sd.names]
    IN  Scanned(sys_scandir(w, UDC_LIST_DIR, FALSE))

\* udc = NULL asks for the default controller; crash says that udc_list[0]
\* was read from an empty list
usbg_enable_gadget(w, G, g, udc) ==
    LET Written(wr, gudc) ==
            IF wr.ret = USBG_SUCCESS
            THEN [w |-> wr.w, G |-> [G EXCEPT !.g[g].udc = gudc], ret |-> wr.ret,
                  crash |-> FALSE]
            ELSE [w |-> wr.w, G |-> G, ret |-> wr.ret, crash |-> FALSE]
        Write(w1, gudc) ==
            Written(usbg_write_string(w1, G.g[g].path, G.g[g].name, STR_UDC, gudc),
                    gudc)
        Listed(l) ==
            IF l.ret < 0 THEN [w |-> l.w, G |-> G, ret |-> l.ret, crash |-> FALSE]
            ELSE IF l.ret = 0
            THEN \* udc_list[0] is read from a list of no entries
                 [w |-> l.w, G |-> G, ret |-> USBG_ERROR_INVALID_PARAM,
                  crash |-> TRUE]
            ELSE Write(l.w, l.names[1])
    IN  IF udc = NULL THEN Listed(usbg_get_udcs(w)) ELSE Write(w, udc)

\* g->udc is cleared before the write is attempted
usbg_disable_gadget(w, G, g) ==
    LET Written(wr) ==
            [w |-> wr.w, G |-> [G EXCEPT !.g[g].udc = STR_EMPTY], ret |-> wr.ret]
    IN  Written(usbg_write_string(w, G.g[g].path, G.g[g].name, STR_UDC, STR_EMPTY))

\* usbg_cleanup: usbg_free_state releases the state and every node
usbg_cleanup(G) == EmptyGraph


(***************************************************************************)
(* The program under a client and an environment.                          *)
(*                                                                         *)
(* fs is the on-disk tree, s the usbg_state handle of the client (live:    *)
(* the client holds a state it may use), G the nodes of that state, last   *)
(* the last API call (its name, its operand, its result and the system     *)
(* calls it made), crashed whether a call has ended the process or will    *)
(* never return, calls the number of calls made.                           *)
(***************************************************************************)
VARIABLES fs, s, G, last, crashed, calls

vars == <<fs, s, G, last, crashed, calls>>

\* The names the client and the environment use.
ConfigfsPath == <<47, 99, 102, 103>>                          \* "/cfg"
GadgetDir == Join2(ConfigfsPath, STR_usb_gadget)
STR_g1 == <<103, 49>>
STR_g2 == <<103, 50>>
STR_a == <<97>>
STR_b == <<98>>
STR_c == <<99>>
STR_d == <<100>>
STR_e == <<101>>
STR_UDC1 == <<85, 68, 67, 49>>
STR_UDC2 == <<85, 68, 67, 50>>

\* How many fallible steps of one call the environment can pick to fail,
\* how many instances and ids the client creates, how many calls it makes.
MaxFault == 3
MaxInstance == 4
MaxId == 2
MaxCalls == 4
FaultErrnos == {EACCES, EIO}

Faults == {<<0, 0>>} \cup {<<k, e>> : k \in 1..MaxFault, e \in FaultErrnos}

W(tree, fault) ==
    [dirs |-> tree.dirs, links |-> tree.links, files |-> tree.files,
     fault |-> fault[1], ferrno |-> fault[2], log |-> <<>>]

FsOf(w) == [dirs |-> w.dirs, links |-> w.links, files |-> w.files]

\* The trees the environment may have built before the library is used:
\* Mk and Ln are mkdir and ln -s of its shell.
Mk(tree, p) == FsOf(sys_mkdir(W(tree, <<0, 0>>), p).w)
Ln(tree, target, p) == FsOf(sys_symlink(W(tree, <<0, 0>>), target, p).w)

RECURSIVE MkAll(_, _)
MkAll(tree, ps) == IF ps = <<>> THEN tree ELSE MkAll(Mk(tree, Head(ps)), Tail(ps))

FnName(type, instance) == function_names[type + 1] \o <<CH_DOT>> \o instance
FnPath(g, type, instance) == Join3(Join2(GadgetDir, g), FUNCTIONS_DIR, FnName(type, instance))
CfgPath(g, name) == Join3(Join2(GadgetDir, g), CONFIGS_DIR, name)

TreeEmpty ==
    [dirs |-> {ConfigfsPath, GadgetDir, UDC_LIST_DIR,
               Join2(UDC_LIST_DIR, STR_UDC1), Join2(UDC_LIST_DIR, STR_UDC2)},
     links |-> <<>>, files |-> <<>>]

\* one gadget; functions acm.1, acm.2, acm.4, acm.5; config c.1 with the
\* bindings a -> acm.1, c -> acm.4, d -> acm.5
TreeBound ==
    LET t == MkAll(TreeEmpty,
                 << Join2(GadgetDir, STR_g1),
                    FnPath(STR_g1, F_ACM, <<49>>), FnPath(STR_g1, F_ACM, <<50>>),
                    FnPath(STR_g1, F_ACM, <<52>>), FnPath(STR_g1, F_ACM, <<53>>),
                    CfgPath(STR_g1, <<99, 46, 49>>) >>)
        c1 == CfgPath(STR_g1, <<99, 46, 49>>)
    IN  Ln(Ln(Ln(t, FnPath(STR_g1, F_ACM, <<49>>), Join2(c1, STR_a)),
              FnPath(STR_g1, F_ACM, <<52>>), Join2(c1, STR_c)),
           FnPath(STR_g1, F_ACM, <<53>>), Join2(c1, STR_d))

\* one gadget; function acm.1; configs c.1 and d.1; c.1 has two links, a
\* and b, to acm.1
TreeOdd ==
    LET c1 == CfgPath(STR_g1, <<99, 46, 49>>)
        t == MkAll(TreeEmpty,
                 << Join2(GadgetDir, STR_g1), FnPath(STR_g1, F_ACM, <<49>>),
                    c1, CfgPath(STR_g1, <<100, 46, 49>>) >>)
    IN  Ln(Ln(t, FnPath(STR_g1, F_ACM, <<49>>), Join2(c1, STR_a)),
           FnPath(STR_g1, F_ACM, <<49>>), Join2(c1, STR_b))

\* one gadget and no controller: /sys/class/udc has no entry
TreeNoUdc ==
    Mk([dirs |-> {ConfigfsPath, GadgetDir, UDC_LIST_DIR},
        links |-> <<>>, files |-> <<>>],
       Join2(GadgetDir, STR_g1))

Trees == {TreeEmpty, TreeBound, TreeOdd, TreeNoUdc}

NoCall == [op |-> "none", arg |-> <<>>, ret |-> USBG_SUCCESS, log |-> <<>>]

\* The client makes its next call once it has taken the result of the last
\* one, and never after a crash.
Idle == ~crashed /\ last.op = "none" /\ calls < MaxCalls

Called(op, arg, r) == [op |-> op, arg |-> arg, ret |-> r.ret, log |-> r.w.log]

Init ==
    /\ fs \in Trees
    /\ s = [live |-> FALSE, path |-> NULL]
    /\ G = EmptyGraph
    /\ last = NoCall
    /\ crashed = FALSE
    /\ calls = 0

\* What the client passes.
GadgetNames == {STR_g1, STR_g2}
FunctionTypes == {F_SERIAL, F_ACM}
Instances == {FmtDec(i) : i \in 1..MaxInstance}
ConfigIds == 0..MaxId
ConfigLabels == {NULL, STR_c}
BindingNames == {STR_a, STR_b, STR_e}
UdcNames == {NULL, STR_UDC2}

SomeGadgetAttrs ==
    [bcdUSB |-> 512, bDeviceClass |-> 0, bDeviceSubClass |-> 0,
     bDeviceProtocol |-> 0, bMaxPacketSize0 |-> 64, idVendor |-> 7531,
     idProduct |-> 260, bcdDevice |-> 1]
SomeGadgetStrs == [str_ser |-> <<49>>, str_mnf |-> <<109>>, str_prd |-> <<112>>]
SomeFunctionAttrs ==
    [port_num |-> 1, dev_addr |-> <<48>>, host_addr |-> <<48>>,
     ifname |-> <<117>>, qmult |-> 5]
SomeConfigAttrs == [bMaxPower |-> 2, bmAttributes |-> 128]
SomeConfigStr == <<120>>

\* A binding node that was freed while a pointer of its queue still led
\* to it: a later call that follows that pointer reads freed memory.
\* usbg_get_binding visits the queue up to the first node of the name.
ReadByGetBinding(graph, c, name) ==
    LET bs == Bindings(graph, c)
        at == {i \in 1..Len(bs) : graph.b[bs[i]].name = name}
    IN  {bs[i] : i \in 1..(IF at = {} THEN Len(bs) ELSE SetMin(at))}

\* TAILQ_REMOVE writes the node after b and the node before it.
WrittenByRemove(graph, b) ==
    {graph.b[b].next, graph.b[b].prev} \ {NULL}

Freed(graph, ns) == \E n \in ns : graph.b[n].freed

\* The next pointers of the bindings of c form a cycle: a traversal that
\* does not stop on its way never ends.
Endless(graph, c) == Len(Bindings(graph, c)) > Cardinality(DOMAIN graph.b)

\* The configs and the bindings that usbg_free_state visits.
VisitedConfigs(graph) ==
    UNION {Range(Configs(graph, g)) : g \in Range(Gadgets(graph))}

VisitedBindings(graph) ==
    UNION {Range(Bindings(graph, c)) : c \in VisitedConfigs(graph)}

\* The call does not return: the process dies in it or loops for ever.
Dies(op, arg) ==
    /\ crashed' = TRUE
    /\ last' = [op |-> op, arg |-> arg, ret |-> USBG_ERROR_OTHER_ERROR, log |-> <<>>]
    /\ calls' = calls + 1
    /\ UNCHANGED <<fs, s, G>>

\* The outcome of a call r that read freed memory on its way: the process
\* dies in it, or the memory still held what it held when it was freed.
UseAfterFree(op, arg, r) ==
    \/ Dies(op, arg)
    \/ /\ crashed' = FALSE
       /\ calls' = calls + 1
       /\ fs' = FsOf(r.w)
       /\ G' = r.G
       /\ last' = Called(op, arg, r)
       /\ UNCHANGED s

Return(op, arg, r) ==
    /\ fs' = FsOf(r.w)
    /\ G' = r.G
    /\ last' = Called(op, arg, r)
    /\ calls' = calls + 1
    /\ UNCHANGED <<s, crashed>>

ReturnOrCrash(op, arg, r) ==
    /\ fs' = FsOf(r.w)
    /\ G' = r.G
    /\ last' = Called(op, arg, r)
    /\ crashed' = r.crash
    /\ calls' = calls + 1
    /\ UNCHANGED s

InitReturn(r) ==
    /\ fs' = FsOf(r.w)
    /\ G' = r.G
    /\ s' = [live |-> r.live, path |-> r.path]
    /\ last' = Called("init", ConfigfsPath, r)
    /\ calls' = calls + 1
    /\ UNCHANGED crashed

DoInit ==
    /\ Idle /\ ~s.live
    /\ \E fault \in Faults : InitReturn(usbg_init(W(fs, fault), ConfigfsPath))

CleanupReturn ==
    /\ fs' = fs
    /\ G' = usbg_cleanup(G)
    /\ s' = [live |-> FALSE, path |-> NULL]
    /\ last' = [op |-> "cleanup", arg |-> <<>>, ret |-> USBG_SUCCESS, log |-> <<>>]
    /\ calls' = calls + 1
    /\ UNCHANGED crashed

\* usbg_free_state removes and frees the first node of every queue until
\* the queue is empty: a freed binding in a queue is freed again, and a
\* queue whose pointers form a cycle never gets empty.
Cleanup ==
    IF \E c \in VisitedConfigs(G) : Endless(G, c) THEN Dies("cleanup", <<>>)
    ELSE IF Freed(G, VisitedBindings(G))
    THEN Dies("cleanup", <<>>) \/ CleanupReturn
    ELSE CleanupReturn

DoCleanup == Idle /\ s.live /\ Cleanup

DoCreateGadget ==
    /\ Idle /\ s.live
    /\ \E name \in GadgetNames, g_attrs \in {NULL, SomeGadgetAttrs},
          g_strs \in {NULL, SomeGadgetStrs}, fault \in Faults :
         Return("create_gadget", name,
                usbg_create_gadget(W(fs, fault), G, s, name, g_attrs, g_strs))

DoCreateFunction ==
    /\ Idle /\ s.live
    /\ \E g \in DOMAIN G.g, type \in FunctionTypes, instance \in Instances,
          f_attrs \in {NULL, SomeFunctionAttrs}, fault \in Faults :
         ReturnOrCrash("create_function", <<g, type, instance>>,
                usbg_create_function(W(fs, fault), G, g, type, instance, f_attrs))

DoCreateConfig ==
    /\ Idle /\ s.live
    /\ \E g \in DOMAIN G.g, id \in ConfigIds, label \in ConfigLabels,
          c_attrs \in {NULL, SomeConfigAttrs}, c_strs \in {NULL, SomeConfigStr},
          fault \in Faults :
         Return("create_config", <<g, id>>,
                usbg_create_config(W(fs, fault), G, g, id, label, c_attrs, c_strs))

\* usbg_get_binding walks the bindings of c up to one of the name.
AddReturn(c, name, f, r) ==
    IF usbg_get_binding(G, c, name) = NULL /\ Endless(G, c)
    THEN Dies("add_config_function", <<c, name, f>>)
    ELSE IF Freed(G, ReadByGetBinding(G, c, name))
    THEN UseAfterFree("add_config_function", <<c, name, f>>, r)
    ELSE Return("add_config_function", <<c, name, f>>, r)

DoAddConfigFunction ==
    /\ Idle /\ s.live
    /\ \E c \in DOMAIN G.c, name \in BindingNames, f \in DOMAIN G.f,
          fault \in Faults :
         AddReturn(c, name, f, usbg_add_config_function(W(fs, fault), G, c, name, f))

RmReturn(b, r) ==
    IF r.ret = USBG_SUCCESS /\ Freed(G, WrittenByRemove(G, b))
    THEN UseAfterFree("rm_binding", b, r)
    ELSE Return("rm_binding", b, r)

DoRmBinding ==
    /\ Idle /\ s.live
    /\ \E b \in {n \in DOMAIN G.b : ~G.b[n].freed}, fault \in Faults :
         RmReturn(b, usbg_rm_binding(W(fs, fault), G, b))

DoEnableGadget ==
    /\ Idle /\ s.live
    /\ \E g \in DOMAIN G.g, udc \in UdcNames, fault \in Faults :
         ReturnOrCrash("enable_gadget", g,
                usbg_enable_gadget(W(fs, fault), G, g, udc))

DoDisableGadget ==
    /\ Idle /\ s.live
    /\ \E g \in DOMAIN G.g, fault \in Faults :
         Return("disable_gadget", g, usbg_disable_gadget(W(fs, fault), G, g))

\* The client takes the result of the call.
Resume ==
    /\ ~crashed /\ last.op # "none"
    /\ last' = NoCall
    /\ UNCHANGED <<fs, s, G, crashed, calls>>

Next ==
    \/ Resume
    \/ DoInit
    \/ DoCleanup
    \/ DoCreateGadget
    \/ DoCreateFunction
    \/ DoCreateConfig
    \/ DoAddConfigFunction
    \/ DoRmBinding
    \/ DoEnableGadget
    \/ DoDisableGadget

Spec == Init /\ [][Next]_vars


(***************************************************************************)
(* The client that builds a tree from an empty root: no fault is injected, *)
(* no attribute is passed, and the state may be torn down and rediscovered.*)
(***************************************************************************)
MaxTripCalls == 7

NoFault == <<0, 0>>

TripTypes == {F_ACM, F_OBEX}

Ready == ~crashed /\ last.op = "none" /\ calls < MaxTripCalls

InitTrip ==
    /\ fs = TreeEmpty
    /\ s = [live |-> FALSE, path |-> NULL]
    /\ G = EmptyGraph
    /\ last = NoCall
    /\ crashed = FALSE
    /\ calls = 0

TripInit ==
    /\ Ready /\ ~s.live
    /\ InitReturn(usbg_init(W(fs, NoFault), ConfigfsPath))

TripCleanup == Ready /\ s.live /\ Cleanup

TripCreateGadget ==
    /\ Ready /\ s.live
    /\ Return("create_gadget", STR_g1,
              usbg_create_gadget(W(fs, NoFault), G, s, STR_g1, NULL, NULL))

TripCreateFunction ==
    /\ Ready /\ s.live
    /\ \E g \in DOMAIN G.g, type \in TripTypes, instance \in Instances :
         ReturnOrCrash("create_function", <<g, type, instance>>,
                usbg_create_function(W(fs, NoFault), G, g, type, instance, NULL))

TripCreateConfig ==
    /\ Ready /\ s.live
    /\ \E g \in DOMAIN G.g, id \in 1..MaxId :
         Return("create_config", <<g, id>>,
                usbg_create_config(W(fs, NoFault), G, g, id, STR_c, NULL, NULL))

TripAddConfigFunction ==
    /\ Ready /\ s.live
    /\ \E c \in DOMAIN G.c, name \in BindingNames, f \in DOMAIN G.f :
         AddReturn(c, name, f,
                   usbg_add_config_function(W(fs, NoFault), G, c, name, f))

NextTrip ==
    \/ Resume
    \/ TripInit
    \/ TripCleanup
    \/ TripCreateGadget
    \/ TripCreateFunction
    \/ TripCreateConfig
    \/ TripAddConfigFunction

SpecRoundTrip == InitTrip /\ [][NextTrip]_vars


(***************************************************************************)
(* The client that discovers a tree some other program has built: the      *)
(* environment may fail any one step of the discovery.                     *)
(***************************************************************************)
MaxDiscFault == 16

STR_ffs == <<102, 102, 115>>
STR_b1 == <<98, 49>>
STR_b2 == <<98, 50>>
STR_c1 == <<99, 46, 49>>
STR_c0 == <<99, 46, 48>>
STR_c256 == <<99, 46, 50, 53, 54>>

FfsPath(g, instance) ==
    Join3(Join2(GadgetDir, g), FUNCTIONS_DIR, STR_ffs \o <<CH_DOT>> \o instance)

\* gadget g1 with the functions acm.0 and ecm.0 and the config c.1 bound
\* to both by the links b1 and b2
TreeScenario ==
    LET t == MkAll(TreeEmpty,
                 << Join2(GadgetDir, STR_g1), FnPath(STR_g1, F_ECM, <<48>>),
                    FnPath(STR_g1, F_ACM, <<48>>), CfgPath(STR_g1, STR_c1) >>)
    IN  Ln(Ln(t, FnPath(STR_g1, F_ACM, <<48>>), Join2(CfgPath(STR_g1, STR_c1), STR_b1)),
           FnPath(STR_g1, F_ECM, <<48>>), Join2(CfgPath(STR_g1, STR_c1), STR_b2))

\* gadget g1 with one function directory of every type of the table
TreeTableTypes ==
    MkAll(TreeEmpty,
          <<Join2(GadgetDir, STR_g1)>>
          \o [i \in 1..Len(function_names) |-> FnPath(STR_g1, i - 1, <<49>>)])

\* ... and an ffs one
TreeAllTypes == Mk(TreeTableTypes, FfsPath(STR_g1, <<49>>))

\* the link a of c.1 leads to functions/ncm.1, which does not exist
TreeDangling ==
    LET t == MkAll(TreeEmpty,
                 << Join2(GadgetDir, STR_g1), FnPath(STR_g1, F_ACM, <<49>>),
                    CfgPath(STR_g1, STR_c1) >>)
    IN  Ln(t, FnPath(STR_g1, F_NCM, <<49>>), Join2(CfgPath(STR_g1, STR_c1), STR_a))

\* the link a of g2's c.1 leads to acm.1 of g1; g2 has no function
TreeForeign ==
    LET t == MkAll(TreeEmpty,
                 << Join2(GadgetDir, STR_g1), FnPath(STR_g1, F_ACM, <<49>>),
                    Join2(GadgetDir, STR_g2), CfgPath(STR_g2, STR_c1) >>)
    IN  Ln(t, FnPath(STR_g1, F_ACM, <<49>>), Join2(CfgPath(STR_g2, STR_c1), STR_a))

\* ... and g2 has an acm.1 of its own
TreeForeignTwin == Mk(TreeForeign, FnPath(STR_g2, F_ACM, <<49>>))

\* the config of g1 is c.0, with a link to acm.1
TreeZeroId ==
    LET t == MkAll(TreeEmpty,
                 << Join2(GadgetDir, STR_g1), FnPath(STR_g1, F_ACM, <<49>>),
                    CfgPath(STR_g1, STR_c0) >>)
    IN  Ln(t, FnPath(STR_g1, F_ACM, <<49>>), Join2(CfgPath(STR_g1, STR_c0), STR_a))

\* two entries no split accepts: functions/ffs.1 and configs/c.256
TreeTwoErrors ==
    MkAll(TreeEmpty,
          << Join2(GadgetDir, STR_g1), FfsPath(STR_g1, <<49>>),
             CfgPath(STR_g1, STR_c256) >>)

\* config directories whose id is not written the way "%d" writes it:
\* c.09, c.1 and c.9
TreeNumbered ==
    MkAll(TreeEmpty,
          << Join2(GadgetDir, STR_g1), CfgPath(STR_g1, <<99, 46, 48, 57>>),
             CfgPath(STR_g1, <<99, 46, 49>>), CfgPath(STR_g1, <<99, 46, 57>>) >>)

\* one gadget with the configs c.1, c.9 and d.1 and nothing else
TreeThreeConfigs ==
    MkAll(TreeEmpty,
          << Join2(GadgetDir, STR_g1), CfgPath(STR_g1, <<99, 46, 49>>),
             CfgPath(STR_g1, <<99, 46, 57>>), CfgPath(STR_g1, <<100, 46, 49>>) >>)

FoundTrees ==
    Trees \cup {TreeScenario, TreeTableTypes, TreeAllTypes, TreeDangling,
                TreeForeign, TreeForeignTwin, TreeZeroId, TreeTwoErrors,
                TreeNumbered}

DiscFaults == {NoFault} \cup {<<k, e>> : k \in 1..MaxDiscFault, e \in FaultErrnos}

InitFound ==
    /\ fs \in FoundTrees
    /\ s = [live |-> FALSE, path |-> NULL]
    /\ G = EmptyGraph
    /\ last = NoCall
    /\ crashed = FALSE
    /\ calls = 0

\* arg is the fault the environment had set and what is left of its
\* countdown when the call returns (0: a step was made to fail)
FoundReturn(fault, r) ==
    /\ fs' = FsOf(r.w)
    /\ G' = r.G
    /\ s' = [live |-> r.live, path |-> r.path]
    /\ last' = [op |-> "init", arg |-> <<fault, r.w.fault>>, ret |-> r.ret,
                log |-> r.w.log]
    /\ calls' = calls + 1
    /\ UNCHANGED crashed

FoundInit ==
    /\ Idle /\ ~s.live
    /\ \E fault \in DiscFaults : FoundReturn(fault, usbg_init(W(fs, fault), ConfigfsPath))

NextFound == Resume \/ FoundInit \/ DoCleanup

SpecDiscovery == InitFound /\ [][NextFound]_vars


(***************************************************************************)
(* The naming conventions on their own: the type table and the two splits  *)
(* applied to names.  ret is what the function returns, out what it stores *)
(* through its pointer parameters.                                         *)
(***************************************************************************)
MaxParts == 3
MaxCode == 40

\* "", "acm", "gser", "phonet", "c", "0", "1", "01", "255", "256", "-1",
\* "+1", " 1", "1x", "4294967297", "9223372036854775808"
NameParts ==
    { <<>>, <<97, 99, 109>>, <<103, 115, 101, 114>>,
      <<112, 104, 111, 110, 101, 116>>, <<99>>, <<48>>, <<49>>, <<48, 49>>,
      <<50, 53, 53>>, <<50, 53, 54>>, <<45, 49>>, <<43, 49>>, <<32, 49>>,
      <<49, 120>>, <<52, 50, 57, 52, 57, 54, 55, 50, 57, 55>>,
      LONG_MIN_DIGITS }

RECURSIVE DotJoin(_)
DotJoin(parts) ==
    IF Len(parts) = 1 THEN parts[1]
    ELSE parts[1] \o <<CH_DOT>> \o DotJoin(Tail(parts))

\* the names: up to MaxParts parts with a '.' between them
DirNames == {DotJoin(ps) : ps \in UNION {[1..n -> NameParts] : n \in 1..MaxParts}}

TypeOrdinals == -1..Len(function_names)

InitNames ==
    /\ fs = TreeEmpty
    /\ s = [live |-> FALSE, path |-> NULL]
    /\ G = EmptyGraph
    /\ last = NoCall
    /\ crashed = FALSE
    /\ calls = 0

Applied(op, arg, ret, out) ==
    /\ last' = [op |-> op, arg |-> arg, ret |-> ret, log |-> <<>>, out |-> out]
    /\ UNCHANGED <<fs, s, G, crashed, calls>>

GetFunctionTypeStr ==
    /\ Idle
    /\ \E type \in TypeOrdinals :
         Applied("get_function_type_str", type, usbg_get_function_type_str(type), <<>>)

LookupFunctionType ==
    /\ Idle
    /\ \E name \in NameParts \cup Range(function_names) :
         Applied("lookup_function_type", name, usbg_lookup_function_type(name), <<>>)

SplitFunctionInstanceType ==
    /\ Idle
    /\ \E name \in DirNames :
         LET r == usbg_split_function_instance_type(name)
         IN  Applied("split_function_instance_type", name, r.ret,
                     [type |-> r.type, instance |-> r.instance])

SplitConfigLabelId ==
    /\ Idle
    /\ \E name \in DirNames :
         LET r == usbg_split_config_label_id(name)
         IN  Applied("split_config_label_id", name, r.ret, [label |-> r.label])

\* the values of the int parameter of usbg_translate_error
ErrorCodes == (0 - MaxCode)..MaxCode

TranslateError ==
    /\ Idle
    /\ \E error \in ErrorCodes :
         Applied("translate_error", error, usbg_translate_error(error), <<>>)

NextNames ==
    \/ Resume
    \/ GetFunctionTypeStr
    \/ LookupFunctionType
    \/ SplitFunctionInstanceType
    \/ SplitConfigLabelId
    \/ TranslateError

SpecNames == InitNames /\ [][NextNames]_vars


(***************************************************************************)
(* The client whose configfs root lies deep: the path of the state is so   *)
(* long that the length of a name decides whether a composed path fits     *)
(* the buffer.  No component of a path is longer than 255 characters, no   *)
(* fault is injected.                                                      *)
(***************************************************************************)
MaxOver == 2
MaxLimitCalls == 3

Xs(n) == [i \in 1..n |-> 120]

\* A root of components of 255 'x' such that
\* "<root>/usb_gadget/g1/functions/acm.1" has the longest length the buffer
\* holds
DeepRoot ==
    [i \in 1..(USBG_MAX_PATH_LENGTH - 2
               - Len(Join3(Join2(STR_usb_gadget, STR_g1), FUNCTIONS_DIR,
                           FnName(F_ACM, <<49>>)))) |->
        IF i % 256 = 1 THEN CH_SLASH ELSE 120]

DeepGadgetDir == Join2(DeepRoot, STR_usb_gadget)

\* the gadget g1 under the deep root
TreeDeep ==
    Mk([dirs |-> {DeepRoot, DeepGadgetDir}, links |-> <<>>, files |-> <<>>],
       Join2(DeepGadgetDir, STR_g1))

\* What is left of the buffer after "<a>/<b>": the longest name that fits
\* behind it has Room(..) characters
Room(prefix, suffix) == USBG_MAX_PATH_LENGTH - 1 - Len(prefix) - 1 - Len(suffix)

\* The names the client passes: a short one, the longest that fits and
\* the ones up to MaxOver characters longer
Lengths(room) == {1} \cup {room + k : k \in 0..MaxOver}

LimitGadgetNames == {STR_g2} \cup {Xs(n) : n \in Lengths(Room(DeepGadgetDir, <<>>))}

LimitInstances ==
    {Xs(n) : n \in Lengths(Room(Join3(DeepGadgetDir, STR_g1, FUNCTIONS_DIR),
                                function_names[F_ACM + 1] \o <<CH_DOT>>))}

LimitLabels ==
    {Xs(n) : n \in Lengths(Room(Join3(DeepGadgetDir, STR_g1, CONFIGS_DIR),
                                <<CH_DOT>> \o FmtDec(1)))}

Able == ~crashed /\ last.op = "none" /\ calls < MaxLimitCalls

InitLimits ==
    /\ fs = TreeDeep
    /\ s = [live |-> FALSE, path |-> NULL]
    /\ G = EmptyGraph
    /\ last = NoCall
    /\ crashed = FALSE
    /\ calls = 0

LimitReturn(r) ==
    /\ fs' = FsOf(r.w)
    /\ G' = r.G
    /\ s' = [live |-> r.live, path |-> r.path]
    /\ last' = Called("init", DeepRoot, r)
    /\ calls' = calls + 1
    /\ UNCHANGED crashed

LimitInit ==
    /\ Able /\ ~s.live
    /\ LimitReturn(usbg_init(W(fs, NoFault), DeepRoot))

LimitCreateGadget ==
    /\ Able /\ s.live
    /\ \E name \in LimitGadgetNames, g_attrs \in {NULL, SomeGadgetAttrs} :
         Return("create_gadget", name,
                usbg_create_gadget(W(fs, NoFault), G, s, name, g_attrs, NULL))

LimitCreateFunction ==
    /\ Able /\ s.live
    /\ \E g \in DOMAIN G.g, instance \in LimitInstances :
         ReturnOrCrash("create_function", <<g, F_ACM, instance>>,
                usbg_create_function(W(fs, NoFault), G, g, F_ACM, instance, NULL))

LimitCreateConfig ==
    /\ Able /\ s.live
    /\ \E g \in DOMAIN G.g, id \in 0..MaxId, label \in LimitLabels :
         Return("create_config", <<g, id, label>>,
                usbg_create_config(W(fs, NoFault), G, g, id, label, NULL, NULL))

\* The attribute primitives on "<state path>/<name>/UDC", for the gadget
\* g1 and for names of no gadget.
LimitAttrDirs ==
    {STR_g1} \cup {Xs(n) : n \in Lengths(Room(DeepGadgetDir, <<CH_SLASH>> \o STR_UDC))}

AttrReturn(op, arg, r) ==
    /\ fs' = FsOf(r.w)
    /\ last' = Called(op, arg, r)
    /\ calls' = calls + 1
    /\ UNCHANGED <<s, G, crashed>>

LimitReadAttr ==
    /\ Able /\ s.live
    /\ \E name \in LimitAttrDirs :
         \/ AttrReturn("read_string", <<s.path, name, STR_UDC>>,
                       usbg_read_string(W(fs, NoFault), s.path, name, STR_UDC))
         \/ AttrReturn("read_dec", <<s.path, name, STR_UDC>>,
                       usbg_read_dec(W(fs, NoFault), s.path, name, STR_UDC))
         \/ AttrReturn("read_hex", <<s.path, name, STR_UDC>>,
                       usbg_read_hex(W(fs, NoFault), s.path, name, STR_UDC))

LimitWriteAttr ==
    /\ Able /\ s.live
    /\ \E name \in LimitAttrDirs :
         \/ AttrReturn("write_string", <<s.path, name, STR_UDC>>,
                       usbg_write_string(W(fs, NoFault), s.path, name, STR_UDC, STR_UDC2))
         \/ AttrReturn("write_dec", <<s.path, name, STR_UDC>>,
                       usbg_write_dec(W(fs, NoFault), s.path, name, STR_UDC, 1))
         \/ AttrReturn("write_hex16", <<s.path, name, STR_UDC>>,
                       usbg_write_hex16(W(fs, NoFault), s.path, name, STR_UDC, 512))
         \/ AttrReturn("write_hex8", <<s.path, name, STR_UDC>>,
                       usbg_write_hex8(W(fs, NoFault), s.path, name, STR_UDC, 64))

NextLimits ==
    \/ Resume
    \/ LimitInit
    \/ LimitCreateGadget
    \/ LimitCreateFunction
    \/ LimitCreateConfig
    \/ LimitReadAttr
    \/ LimitWriteAttr

SpecLimits == InitLimits /\ [][NextLimits]_vars


(***************************************************************************)
(* The attribute primitives on their own: typed writes and reads of the    *)
(* attribute bcdUSB of the gadget g1.  No fault is injected.  The client   *)
(* writes, then reads; last holds its most recent call and val the value   *)
(* written or the value the read stored.                                   *)
(***************************************************************************)
MaxHex16 == 65535
MaxHex8 == 255
MaxDec == 1000
MaxAttrWrites == 1
MaxAttrCalls == 2

STR_bcdUSB == <<98, 99, 100, 85, 83, 66>>

\* "x", "UDC2", "0x1f", "12 ", "zz", 254 and 255 characters; and outside
\* what a string attribute takes: "a\nb", 256 characters
AttrStrings ==
    { <<120>>, STR_UDC2, <<48, 120, 49, 102>>, <<49, 50, 32>>, <<122, 122>>,
      Xs(USBG_MAX_STR_LENGTH - 2), Xs(USBG_MAX_STR_LENGTH - 1),
      <<97, CH_NL, 98>>, Xs(USBG_MAX_STR_LENGTH) }

TreeGadget == Mk(TreeEmpty, Join2(GadgetDir, STR_g1))

InitAttrs ==
    /\ fs = TreeGadget
    /\ s = [live |-> FALSE, path |-> NULL]
    /\ G = EmptyGraph
    /\ last = NoCall @@ [val |-> NULL]
    /\ crashed = FALSE
    /\ calls = 0

AttrDone(op, val, r) ==
    /\ fs' = FsOf(r.w)
    /\ last' = [op |-> op, arg |-> <<GadgetDir, STR_g1, STR_bcdUSB>>,
                ret |-> r.ret, log |-> r.w.log, val |-> val]
    /\ calls' = calls + 1
    /\ UNCHANGED <<s, G, crashed>>

AttrWriteHex16 ==
    /\ calls < MaxAttrWrites
    /\ \E v \in 0..MaxHex16 :
         AttrDone("write_hex16", v,
                  usbg_write_hex16(W(fs, NoFault), GadgetDir, STR_g1, STR_bcdUSB, v))

AttrWriteHex8 ==
    /\ calls < MaxAttrWrites
    /\ \E v \in 0..MaxHex8 :
         AttrDone("write_hex8", v,
                  usbg_write_hex8(W(fs, NoFault), GadgetDir, STR_g1, STR_bcdUSB, v))

AttrWriteDec ==
    /\ calls < MaxAttrWrites
    /\ \E v \in 0..MaxDec :
         AttrDone("write_dec", v,
                  usbg_write_dec(W(fs, NoFault), GadgetDir, STR_g1, STR_bcdUSB, v))

AttrWriteString ==
    /\ calls < MaxAttrWrites
    /\ \E str \in AttrStrings :
         AttrDone("write_string", str,
                  usbg_write_string(W(fs, NoFault), GadgetDir, STR_g1, STR_bcdUSB, str))

AttrReadHex ==
    /\ calls < MaxAttrCalls
    /\ LET r == usbg_read_hex(W(fs, NoFault), GadgetDir, STR_g1, STR_bcdUSB)
       IN  AttrDone("read_hex", r.dest, r)

AttrReadDec ==
    /\ calls < MaxAttrCalls
    /\ LET r == usbg_read_dec(W(fs, NoFault), GadgetDir, STR_g1, STR_bcdUSB)
       IN  AttrDone("read_dec", r.dest, r)

AttrReadString ==
    /\ calls < MaxAttrCalls
    /\ LET r == usbg_read_string(W(fs, NoFault), GadgetDir, STR_g1, STR_bcdUSB)
       IN  AttrDone("read_string", r.buf, r)

NextAttrs ==
    \/ AttrWriteHex16
    \/ AttrWriteHex8
    \/ AttrWriteDec
    \/ AttrWriteString
    \/ AttrReadHex
    \/ AttrReadDec
    \/ AttrReadString

SpecAttrs == InitAttrs /\ [][NextAttrs]_vars


(***************************************************************************)
(* The client that creates gadgets and configs over discovered trees, with *)
(* ids inside and outside 1..255 and with a fault at any step of a gadget  *)
(* creation up to the first write of a string.  arg holds what it passed   *)
(* and the fault.                                                          *)
(***************************************************************************)
MaxCreateFault == 21
MaxCreateCalls == 3

CreateTrees == {TreeEmpty, TreeOdd, TreeZeroId, TreeThreeConfigs}

CreateFaults == {NoFault} \cup {<<k, e>> : k \in 1..MaxCreateFault, e \in FaultErrnos}

CreateIds == {-1, 0, 1, 9, 255, 256}

CreateLabels == {NULL, STR_c, STR_d}

Willing == ~crashed /\ last.op = "none" /\ calls < MaxCreateCalls

InitCreate ==
    /\ fs \in CreateTrees
    /\ s = [live |-> FALSE, path |-> NULL]
    /\ G = EmptyGraph
    /\ last = NoCall
    /\ crashed = FALSE
    /\ calls = 0

CreateInit ==
    /\ Willing /\ ~s.live
    /\ InitReturn(usbg_init(W(fs, NoFault), ConfigfsPath))

CreateGadget ==
    /\ Willing /\ s.live
    /\ \E name \in GadgetNames, g_attrs \in {NULL, SomeGadgetAttrs},
          g_strs \in {NULL, SomeGadgetStrs}, fault \in CreateFaults :
         Return("create_gadget",
                [name |-> name, g_attrs |-> g_attrs, g_strs |-> g_strs,
                 fault |-> fault],
                usbg_create_gadget(W(fs, fault), G, s, name, g_attrs, g_strs))

CreateConfig ==
    /\ Willing /\ s.live
    /\ \E g \in DOMAIN G.g, id \in CreateIds, label \in CreateLabels :
         Return("create_config", [g |-> g, id |-> id, label |-> label],
                usbg_create_config(W(fs, NoFault), G, g, id, label, NULL, NULL))

\* usbg_get_config walks the configs of g up to one that matches and
\* writes nothing; out is the pointer it returns.  A walk that finds none
\* in a queue whose next pointers form a cycle never ends.
GetConfig ==
    /\ Willing /\ s.live
    /\ \E g \in DOMAIN G.g, id \in CreateIds,
          label \in CreateLabels \cup {DEFAULT_CONFIG_LABEL} :
         IF /\ usbg_get_config(G, g, id, label) = NULL
            /\ Len(Configs(G, g)) > Cardinality(DOMAIN G.c)
         THEN Dies("get_config", [g |-> g, id |-> id, label |-> label])
         ELSE /\ last' = [op |-> "get_config",
                          arg |-> [g |-> g, id |-> id, label |-> label],
                          ret |-> USBG_SUCCESS, log |-> <<>>,
                          out |-> usbg_get_config(G, g, id, label)]
              /\ calls' = calls + 1
              /\ UNCHANGED <<fs, s, G, crashed>>

NextCreate ==
    \/ Resume
    \/ CreateInit
    \/ CreateGadget
    \/ CreateConfig
    \/ GetConfig

SpecCreate == InitCreate /\ [][NextCreate]_vars


(***************************************************************************)
(* The create operations and what they leave to the caller: the on-disk    *)
(* tree, the graph, the output parameter and the node the call allocated.  *)
(* last carries, besides the call and its result, the fields out, alloc    *)
(* and freed of the operation.                                             *)
(***************************************************************************)
MaxHandleFault == 7
MaxHandleCalls == 3

HandleTrees == {TreeEmpty, TreeOdd}

HandleFaults == {NoFault} \cup {<<k, EACCES>> : k \in 1..MaxHandleFault}

\* every usbg_function_type of the header
TableTypes == F_SERIAL..F_PHONET

Eager == ~crashed /\ last.op = "none" /\ calls < MaxHandleCalls

InitHandles ==
    /\ fs \in HandleTrees
    /\ s = [live |-> FALSE, path |-> NULL]
    /\ G = EmptyGraph
    /\ last = NoCall
    /\ crashed = FALSE
    /\ calls = 0

HandleReturn(op, arg, r, crash) ==
    /\ fs' = FsOf(r.w)
    /\ G' = r.G
    /\ last' = Called(op, arg, r) @@ Node(r.out, r.alloc, r.freed)
    /\ crashed' = crash
    /\ calls' = calls + 1
    /\ UNCHANGED s

HandleInit ==
    /\ Eager /\ ~s.live
    /\ InitReturn(usbg_init(W(fs, NoFault), ConfigfsPath))

HandleCreateGadget ==
    /\ Eager /\ s.live
    /\ \E name \in GadgetNames, g_attrs \in {NULL, SomeGadgetAttrs},
          fault \in HandleFaults :
         \E r \in {usbg_create_gadget(W(fs, fault), G, s, name, g_attrs, NULL)} :
             HandleReturn("create_gadget",
                   [name |-> name, g_attrs |-> g_attrs, g_strs |-> NULL,
                    fault |-> fault], r, FALSE)

HandleCreateGadgetVidPid ==
    /\ Eager /\ s.live
    /\ \E name \in GadgetNames, fault \in HandleFaults :
         \E r \in {usbg_create_gadget_vid_pid(W(fs, fault), G, s, name,
                            SomeGadgetAttrs.idVendor, SomeGadgetAttrs.idProduct)} :
             HandleReturn("create_gadget_vid_pid",
                   [name |-> name, idVendor |-> SomeGadgetAttrs.idVendor,
                    idProduct |-> SomeGadgetAttrs.idProduct, fault |-> fault],
                   r, FALSE)

HandleCreateFunction ==
    /\ Eager /\ s.live
    /\ \E g \in DOMAIN G.g, type \in TableTypes, f_attrs \in {NULL, SomeFunctionAttrs},
          fault \in HandleFaults :
         \E r \in {usbg_create_function(W(fs, fault), G, g, type, FmtDec(1),
                                             f_attrs)} :
             HandleReturn("create_function",
                   [g |-> g, type |-> type, instance |-> FmtDec(1),
                    f_attrs |-> f_attrs, fault |-> fault], r, r.crash)

HandleCreateConfig ==
    /\ Eager /\ s.live
    /\ \E g \in DOMAIN G.g, id \in 1..MaxId, label \in ConfigLabels,
          c_attrs \in {NULL, SomeConfigAttrs}, fault \in HandleFaults :
         \E r \in {usbg_create_config(W(fs, fault), G, g, id, label, c_attrs,
                                           NULL)} :
             HandleReturn("create_config",
                   [g |-> g, id |-> id, label |-> label, c_attrs |-> c_attrs,
                    fault |-> fault], r, FALSE)

NextHandles ==
    \/ Resume
    \/ HandleInit
    \/ HandleCreateGadget
    \/ HandleCreateGadgetVidPid
    \/ HandleCreateFunction
    \/ HandleCreateConfig

SpecHandles == InitHandles /\ [][NextHandles]_vars


(***************************************************************************)
(* What a client sees of the graph through the first/next traversals, and  *)
(* the properties of the operations.                                       *)
(***************************************************************************)
Names(N, seq) == [i \in 1..Len(seq) |-> N[seq[i]].name]

Ascending(names) ==
    \A i \in 1..(Len(names) - 1) : strcmp(names[i], names[i + 1]) < 0

NoRepeat(seq) == \A i, j \in 1..Len(seq) : seq[i] = seq[j] => i = j

Without(seq, n) == SelectSeq(seq, LAMBDA m : m # n)

FunctionIds(graph, g) ==
    LET fns == Functions(graph, g)
    IN  [i \in 1..Len(fns) |-> <<graph.f[fns[i]].type, graph.f[fns[i]].instance>>]

ConfigIdsOf(graph, g) ==
    LET cs == Configs(graph, g)
    IN  [i \in 1..Len(cs) |-> graph.c[cs[i]].id]

BindingTargets(graph, c) ==
    LET bs == Bindings(graph, c)
    IN  [i \in 1..Len(bs) |-> graph.b[bs[i]].target]

BindingShape(graph, c) ==
    LET bs == Bindings(graph, c)
    IN  [i \in 1..Len(bs) |->
            [name |-> graph.b[bs[i]].name,
             target |-> graph.f[graph.b[bs[i]].target].name]]

ConfigShape(graph, g) ==
    LET cs == Configs(graph, g)
    IN  [i \in 1..Len(cs) |->
            [name |-> graph.c[cs[i]].name, label |-> graph.c[cs[i]].label,
             id |-> graph.c[cs[i]].id, bindings |-> BindingShape(graph, cs[i])]]

FunctionShape(graph, g) ==
    LET fns == Functions(graph, g)
    IN  [i \in 1..Len(fns) |->
            [name |-> graph.f[fns[i]].name, type |-> graph.f[fns[i]].type,
             instance |-> graph.f[fns[i]].instance]]

\* The gadgets, functions, configs and bindings in iteration order.
Shape(graph) ==
    LET gs == Gadgets(graph)
    IN  [i \in 1..Len(gs) |->
            [name |-> graph.g[gs[i]].name,
             functions |-> FunctionShape(graph, gs[i]),
             configs |-> ConfigShape(graph, gs[i])]]

Logged(log, call) == \E i \in DOMAIN log : log[i][1] = call

CreateCalls == {"create_gadget", "create_function", "create_config"}

\* C1: a usbg_create_gadget, usbg_create_function or usbg_create_config
\* call that returns an error after it has made its directory leaves the
\* on-disk tree and the graph as they were before the call.
C1_FailedCreateLeavesNoTrace ==
    [][(/\ last'.op \in CreateCalls
        /\ last'.ret # USBG_SUCCESS
        /\ Logged(last'.log, "mkdir"))
       => (fs' = fs /\ G' = G)]_vars

\* C2: after any sequence of successful creations the traversal of every
\* collection (gadgets, and each gadget's functions and configs, and each
\* config's bindings) yields names in strictly ascending strcmp order.
C2_TraversalAscending ==
    /\ Ascending(Names(G.g, Gadgets(G)))
    /\ \A g \in DOMAIN G.g :
         /\ Ascending(Names(G.f, Functions(G, g)))
         /\ Ascending(Names(G.c, Configs(G, g)))
    /\ \A c \in DOMAIN G.c : Ascending(Names(G.b, Bindings(G, c)))

\* C3: when a graph built by successful create operations is torn down by
\* usbg_cleanup, usbg_init on the same root yields a graph with the same
\* gadgets, functions, configs and bindings in the same iteration order.
C3_RoundTrip ==
    [][last'.op = "cleanup"
       => The({ r.ret = USBG_SUCCESS /\ Shape(r.G) = Shape(G)
                : r \in {usbg_init(W(fs', NoFault), ConfigfsPath)} })]_vars

\* The functions of gadget g that a traversal finds with the identity
\* (type, instance)
FunctionsWith(graph, g, type, instance) ==
    {i \in 1..Len(Functions(graph, g)) :
        FunctionIds(graph, g)[i] = <<type, instance>>}

BindingsLike(graph, c, name, f) ==
    {n \in Range(Bindings(graph, c)) :
        ~graph.b[n].freed /\ (graph.b[n].name = name \/ graph.b[n].target = f)}

\* C5: usbg_add_config_function on a config that already has a binding of
\* the given name, or a binding to the given function, returns
\* USBG_ERROR_EXIST, creates no symbolic link and leaves the config's
\* bindings unchanged.
C5_DuplicateBindingRejected ==
    [][(/\ last'.op = "add_config_function"
        /\ BindingsLike(G, last'.arg[1], last'.arg[2], last'.arg[3]) # {})
       => (/\ ~crashed'
           /\ last'.ret = USBG_ERROR_EXIST
           /\ ~Logged(last'.log, "symlink")
           /\ fs'.links = fs.links
           /\ Bindings(G', last'.arg[1]) = Bindings(G, last'.arg[1]))]_vars

\* C6: after a successful usbg_init on any tree and any creations, no
\* gadget holds two functions of the same (type, instance) or two configs
\* of the same id.
C6_UniqueFunctionsAndConfigs ==
    s.live => \A g \in DOMAIN G.g :
                 /\ NoRepeat(FunctionIds(G, g))
                 /\ NoRepeat(ConfigIdsOf(G, g))

\* C7: after a successful usbg_init on any tree and any additions and
\* removals of bindings, no config holds two bindings of the same name or
\* two bindings to the same function.
C7_UniqueBindings ==
    s.live => \A c \in DOMAIN G.c :
                 /\ NoRepeat(Names(G.b, Bindings(G, c)))
                 /\ NoRepeat(BindingTargets(G, c))

\* C8: a usbg_rm_binding call whose unlink fails returns the translated
\* error and leaves the graph unchanged: the binding keeps its position in
\* its config's traversal and its target.
C8_FailedRemoveKeepsGraph ==
    [][(last'.op = "rm_binding" /\ last'.ret # USBG_SUCCESS /\ ~crashed')
       => (/\ last'.ret \in {usbg_translate_error(e) : e \in FaultErrnos}
           /\ G' = G
           /\ Bindings(G', G.b[last'.arg].parent)
                = Bindings(G, G.b[last'.arg].parent)
           /\ G'.b[last'.arg].target = G.b[last'.arg].target)]_vars

C8_Witness ==
    /\ last.op = "rm_binding"
    /\ last.ret = USBG_ERROR_IO
    /\ Logged(last.log, "unlink")
    /\ last.arg \in Range(Bindings(G, G.b[last.arg].parent))

\* C9: a successful usbg_rm_binding unlinks the on-disk link and then
\* removes exactly that binding: the traversal of its config is the one
\* before without it, and every other config, every function and every
\* gadget stays as it was.
C9_RemoveTakesExactlyOne ==
    [][(last'.op = "rm_binding" /\ last'.ret = USBG_SUCCESS)
       => (/\ last'.log = << <<"unlink", Join2(G.b[last'.arg].path,
                                                G.b[last'.arg].name)>> >>
           /\ Join2(G.b[last'.arg].path, G.b[last'.arg].name) \notin DOMAIN fs'.links
           /\ Bindings(G', G.b[last'.arg].parent)
                = Without(Bindings(G, G.b[last'.arg].parent), last'.arg)
           /\ \A c \in DOMAIN G.c \ {G.b[last'.arg].parent} :
                c \in DOMAIN G'.c /\ Bindings(G', c) = Bindings(G, c)
           /\ Gadgets(G') = Gadgets(G)
           /\ \A g \in DOMAIN G.g :
                /\ Functions(G', g) = Functions(G, g)
                /\ Configs(G', g) = Configs(G, g))]_vars

\* C10: usbg_enable_gadget and usbg_disable_gadget change the gadget's
\* in-memory udc only when the write to the UDC attribute succeeded.
C10_UdcFollowsWrite ==
    [][(/\ last'.op \in {"enable_gadget", "disable_gadget"}
        /\ last'.ret # USBG_SUCCESS)
       => G'.g[last'.arg].udc = G.g[last'.arg].udc]_vars

\* The controllers of the tree and the UDC attribute of gadget g
UdcsOf(tree) == {Basename(q) : q \in {e \in Entries(tree) : Dirname(e) = UDC_LIST_DIR}}

UdcAttr(graph, g) == Join3(graph.g[g].path, graph.g[g].name, STR_UDC)

\* the call listed the controllers, so it was made with udc = NULL, and
\* the listing succeeded
EnabledByDefault(call) ==
    /\ call.op = "enable_gadget"
    /\ Len(call.log) >= 2
    /\ call.log[1] = <<"scandir", UDC_LIST_DIR>>

\* C11: usbg_enable_gadget with udc = NULL and a non-empty controller list
\* writes to the gadget's UDC attribute the controller whose name is the
\* smallest in strcmp order, and on success g->udc is that name.
C11_DefaultUdcIsFirst ==
    [][(EnabledByDefault(last') /\ UdcsOf(fs) # {} /\ ~crashed')
       => (/\ last'.log[2] = <<"fopen_w", UdcAttr(G, last'.arg)>>
           /\ last'.ret = USBG_SUCCESS
                => \E least \in UdcsOf(fs) :
                      /\ \A u \in UdcsOf(fs) : strcmp(least, u) <= 0
                      /\ fs'.files[UdcAttr(G, last'.arg)] = least
                      /\ G'.g[last'.arg].udc = least)]_vars

C11_Witness ==
    /\ EnabledByDefault(last)
    /\ last.ret = USBG_SUCCESS
    /\ Cardinality(UdcsOf(fs)) > 1
    /\ G.g[last.arg].udc = STR_UDC1

IsPrefixSeq(a, b) == Len(a) <= Len(b) /\ SubSeq(b, 1, Len(a)) = a

\* the environment made a step of the call fail
StepFailed(call) == call.arg[1][1] > 0 /\ call.arg[2] = 0

\* C12: discovery is all-or-nothing.  A usbg_init in which a step fails
\* returns the error of that step, makes no further system call, and
\* leaves no node allocated, also when gadgets had been parsed before; of
\* two entries that cannot be parsed the first in traversal order gives
\* the error.
C12_DiscoveryAllOrNothing ==
    [][last'.op = "init"
       => The({ /\ StepFailed(last')
                    => /\ last'.ret \in {usbg_translate_error(last'.arg[1][2]),
                                          USBG_ERROR_NO_MEM}
                       /\ IsPrefixSeq(last'.log, r.w.log)
                /\ ~StepFailed(last') => last'.log = r.w.log
                /\ last'.ret # USBG_SUCCESS
                    => G' = EmptyGraph /\ ~s'.live /\ fs' = fs
                /\ (fs = TreeTwoErrors /\ ~StepFailed(last'))
                    => /\ last'.ret = USBG_ERROR_NOT_SUPPORTED
                       /\ <<"scandir", Join3(GadgetDir, STR_g1, CONFIGS_DIR)>>
                            \notin Range(last'.log)
                : r \in {usbg_init(W(fs, NoFault), ConfigfsPath)} })]_vars

\* a step of the second gadget fails after the first gadget was parsed
C12_Witness ==
    /\ last.op = "init"
    /\ StepFailed(last)
    /\ last.ret = USBG_ERROR_IO
    /\ fs = TreeForeign
    /\ <<"scandir", Join3(GadgetDir, STR_g2, FUNCTIONS_DIR)>> \in Range(last.log)
    /\ G = EmptyGraph

\* The symbolic links that lie in a directory of some configs/ directory
ConfigLinks(tree) ==
    {l \in DOMAIN tree.links : Basename(Dirname(Dirname(l))) = CONFIGS_DIR}

\* The configs of the graph that stand for the directory cdir
ConfigsAt(graph, cdir) ==
    {c \in VisitedConfigs(graph) : Join2(graph.c[c].path, graph.c[c].name) = cdir}

\* The bindings of config c with the name, by traversal
BindingsNamed(graph, c, name) ==
    {i \in 1..Len(Bindings(graph, c)) : graph.b[Bindings(graph, c)[i]].name = name}

\* C13: after a successful usbg_init every symbolic link of a config
\* directory has exactly one Binding of its name in that Config, and the
\* target of the Binding is the Function of the same gadget that is named
\* as the last component of the link's target.
C13_EveryLinkHasItsBinding ==
    (last.op = "init" /\ last.ret = USBG_SUCCESS)
    => \A l \in ConfigLinks(fs) :
         /\ Cardinality(ConfigsAt(G, Dirname(l))) = 1
         /\ \A c \in ConfigsAt(G, Dirname(l)) :
              /\ Cardinality(BindingsNamed(G, c, Basename(l))) = 1
              /\ \A i \in BindingsNamed(G, c, Basename(l)) :
                   LET f == usbg_get_binding_target(G, Bindings(G, c)[i])
                   IN  /\ f \in Range(Functions(G, G.c[c].parent))
                       /\ G.f[f].name = Basename(fs.links[l])

\* The function directories of gadget g in the tree, by name
FunctionDirs(tree, g) ==
    {Basename(d) : d \in {e \in tree.dirs :
                             Dirname(e) = Join3(GadgetDir, g, FUNCTIONS_DIR)}}

\* C14: usbg_init succeeds on a tree whose gadget has one function
\* directory of every type (gser, acm, obex, ecm, geth, ncm, eem, rndis,
\* phonet and ffs), and the gadget then holds one Function per directory.
C14_AllTypesDiscovered ==
    (last.op = "init" /\ fs = TreeAllTypes /\ ~StepFailed(last))
    => /\ last.ret = USBG_SUCCESS
       /\ \A g \in DOMAIN G.g :
            /\ Range(Names(G.f, Functions(G, g))) = FunctionDirs(fs, G.g[g].name)
            /\ Len(Functions(G, g)) = Cardinality(FunctionDirs(fs, G.g[g].name))

\* C15: the type table round-trips.  For every ordinal of the table
\* (serial, acm, obex, ecm, subset, ncm, eem, rndis, phonet)
\* usbg_get_function_type_str returns the string of the type, which is not
\* NULL, and usbg_lookup_function_type of that string is the ordinal.
C15_TypeTableRoundTrips ==
    (last.op = "get_function_type_str" /\ last.arg \in F_SERIAL..F_PHONET)
    => /\ last.ret # NULL
       /\ last.ret = function_names[last.arg + 1]
       /\ usbg_lookup_function_type(last.ret) = last.arg

\* The positions of the '.' characters of a name
Dots(name) == {i \in 1..Len(name) : name[i] = CH_DOT}

Before(name, i) == SubSeq(name, 1, i - 1)

After(name, i) == SubSeq(name, i + 1, Len(name))

\* C16: usbg_split_function_instance_type splits at the first '.'.  It
\* returns USBG_ERROR_INVALID_PARAM when the name has no '.', starts with
\* it or ends with it, USBG_ERROR_NOT_SUPPORTED when the prefix is no
\* string of the table, and otherwise USBG_SUCCESS with the ordinal of the
\* prefix and, as the instance, all that follows the first '.'.
C16_FunctionSplit ==
    last.op = "split_function_instance_type"
    => IF \/ Dots(last.arg) = {}
          \/ SetMin(Dots(last.arg)) = 1
          \/ SetMin(Dots(last.arg)) = Len(last.arg)
       THEN last.ret = USBG_ERROR_INVALID_PARAM
       ELSE IF Before(last.arg, SetMin(Dots(last.arg))) \notin Range(function_names)
       THEN last.ret = USBG_ERROR_NOT_SUPPORTED
       ELSE /\ last.ret = USBG_SUCCESS
            /\ last.out.type \in F_SERIAL..F_PHONET
            /\ function_names[last.out.type + 1]
                 = Before(last.arg, SetMin(Dots(last.arg)))
            /\ last.out.instance = After(last.arg, SetMin(Dots(last.arg)))

\* a name of two '.' was split: the instance holds the second
C16_Witness ==
    /\ last.op = "split_function_instance_type"
    /\ last.ret = USBG_SUCCESS
    /\ Cardinality(Dots(last.arg)) = 2
    /\ Dots(last.out.instance) # {}

\* A base-10 integer as the spec reads it: an optional sign and one digit
\* or more, and nothing else.
Unsigned(t) == IF t # <<>> /\ t[1] \in {CH_MINUS, CH_PLUS} THEN Tail(t) ELSE t

IsDecimal(t) == Unsigned(t) # <<>> /\ \A i \in DOMAIN Unsigned(t) : isdigit(Unsigned(t)[i])

RECURSIVE DecValue(_)
DecValue(d) ==
    IF d = <<>> THEN 0
    ELSE DecValue(SubSeq(d, 1, Len(d) - 1)) * 10 + (d[Len(d)] - CH_ZERO)

\* the integer lies in [0, 255]
InIdRange(t) ==
    LET d == StripZeros(Unsigned(t))
    IN  /\ Len(d) <= 3
        /\ DecValue(d) <= 255
        /\ t[1] = CH_MINUS => DecValue(d) = 0

\* the suffix of a config name is no id: it is empty, starts with white
\* space, is no complete integer or lies outside [0, 255]
NoId(t) == t = <<>> \/ isspace(t[1]) \/ ~IsDecimal(t) \/ ~InIdRange(t)

\* C17: usbg_split_config_label_id splits at the last '.'.  For a name
\* with no '.', no label before it or a suffix that is no id in [0, 255]
\* (an integer too large for a machine integer included) the result is
\* exactly USBG_ERROR_INVALID_PARAM; for every other name it is the id,
\* and the label is the text before the last '.'.
C17_ConfigSplit ==
    last.op = "split_config_label_id"
    => IF \/ Dots(last.arg) = {}
          \/ SetMax(Dots(last.arg)) = 1
          \/ NoId(After(last.arg, SetMax(Dots(last.arg))))
       THEN last.ret = USBG_ERROR_INVALID_PARAM
       ELSE /\ last.ret = DecValue(StripZeros(Unsigned(
                              After(last.arg, SetMax(Dots(last.arg))))))
            /\ last.out.label = Before(last.arg, SetMax(Dots(last.arg)))

\* The names the library composes: "<label>.<id>" by usbg_allocate_config
\* and "<type-string>.<instance>" by usbg_allocate_function (NULL when it
\* has no node to give).
ConfigNameOf(label, id) == usbg_allocate_config(NULL, label, id, NULL).name

FunctionNameOf(type, instance) ==
    The({ IF f = NULL THEN NULL ELSE f.name
          : f \in {usbg_allocate_function(NULL, type, instance, NULL)} })

\* C18: composing and splitting a name are inverses.  The split of
\* "<label>.<id>", for a label (it may hold a '.') and an id in [0, 255],
\* returns that label and id; and the name composed of the result of a
\* split that succeeded, of a config name or of a function name, is the
\* name that was split.
C18_SplitInvertsCompose ==
    /\ last.op = "split_config_label_id"
        => /\ \A id \in 0..255 :
                (/\ Dots(last.arg) # {}
                 /\ SetMax(Dots(last.arg)) > 1
                 /\ last.arg = ConfigNameOf(Before(last.arg, SetMax(Dots(last.arg))), id))
                => /\ last.ret = id
                   /\ last.out.label = Before(last.arg, SetMax(Dots(last.arg)))
           /\ last.ret >= 0 => ConfigNameOf(last.out.label, last.ret) = last.arg
    /\ (last.op = "split_function_instance_type" /\ last.ret = USBG_SUCCESS)
        => FunctionNameOf(last.out.type, last.out.instance) = last.arg

\* The gadget directory above a config link
GadgetOf(l) == Dirname(Dirname(Dirname(l)))

\* The config links whose target names, by its last component, a type and
\* an instance of which the link's gadget has no function directory
DanglingLinks(tree) ==
    {l \in ConfigLinks(tree) :
        /\ usbg_split_function_instance_type(Basename(tree.links[l])).ret
             = USBG_SUCCESS
        /\ Join3(GadgetOf(l), FUNCTIONS_DIR, Basename(tree.links[l])) \notin tree.dirs}

ForeignLinks(tree) ==
    {l \in ConfigLinks(tree) :
        /\ tree.links[l] \in tree.dirs
        /\ Basename(Dirname(tree.links[l])) = FUNCTIONS_DIR
        /\ Dirname(Dirname(tree.links[l])) # GadgetOf(l)}

\* C20: a link of a config of one gadget that leads to a function
\* directory of another gadget makes usbg_init fail, also when the
\* link's gadget has a function of the same name, and gets no Binding.
C20_ForeignLinkRejected ==
    (last.op = "init" /\ ForeignLinks(fs) # {})
    => /\ last.ret # USBG_SUCCESS
       /\ \A l \in ForeignLinks(fs) : l \notin DOMAIN G.b

\* The composed path does not fit a buffer of USBG_MAX_PATH_LENGTH bytes.
TooLong(path) == Len(path) >= USBG_MAX_PATH_LENGTH

\* C21: a usbg_create_gadget whose "<state path>/<name>" does not fit the
\* path buffer returns USBG_ERROR_PATH_TOO_LONG, makes no system call (no
\* mkdir), and leaves the filesystem and the graph, the gadget queue
\* included, as they were.
C21_LongGadgetNameRejected ==
    [][ (last'.op = "create_gadget" /\ TooLong(Join2(s.path, last'.arg)))
        => /\ last'.ret = USBG_ERROR_PATH_TOO_LONG
           /\ last'.log = <<>>
           /\ fs' = fs
           /\ G' = G ]_vars

\* a gadget name one character too long was passed and rejected
C21_Witness ==
    /\ last.op = "create_gadget"
    /\ Len(Join2(s.path, last.arg)) = USBG_MAX_PATH_LENGTH
    /\ last.ret = USBG_ERROR_PATH_TOO_LONG
    /\ G.g # <<>>

\* The directory a create call is to make: "<gadget path>/<gadget>/<kind>/<name>".
NewFunctionDir(graph, call) ==
    Join2(Join3(graph.g[call.arg[1]].path, graph.g[call.arg[1]].name, FUNCTIONS_DIR),
          FnName(call.arg[2], call.arg[3]))

NewConfigDir(graph, call) ==
    Join2(Join3(graph.g[call.arg[1]].path, graph.g[call.arg[1]].name, CONFIGS_DIR),
          call.arg[3] \o <<CH_DOT>> \o FmtDec(call.arg[2]))

\* C22: usbg_create_function and usbg_create_config, given a new entity
\* whose directory path does not fit the path buffer, return
\* USBG_ERROR_PATH_TOO_LONG, call no mkdir, and leave the graph and the
\* filesystem as they were.
C22_LongEntityPathRejected ==
    [][ (\/ /\ last'.op = "create_function"
            /\ usbg_get_function(G, last'.arg[1], last'.arg[2], last'.arg[3]) = NULL
            /\ TooLong(NewFunctionDir(G, last'))
         \/ /\ last'.op = "create_config"
            /\ last'.arg[2] \in 1..255
            /\ usbg_get_config(G, last'.arg[1], last'.arg[2], NULL) = NULL
            /\ TooLong(NewConfigDir(G, last')))
        => /\ last'.ret = USBG_ERROR_PATH_TOO_LONG
           /\ ~Logged(last'.log, "mkdir")
           /\ fs' = fs
           /\ G' = G ]_vars

AttrReads == {"read_string", "read_dec", "read_hex"}
AttrWrites == {"write_string", "write_dec", "write_hex16", "write_hex8"}

\* C23: an attribute read or write whose "<path>/<name>/<file>" does not
\* fit the path buffer returns USBG_ERROR_PATH_TOO_LONG and opens no file
\* (it makes no system call): the filesystem and the graph stay as they
\* were.
C23_LongAttributePathRejected ==
    [][ (/\ last'.op \in AttrReads \cup AttrWrites
         /\ TooLong(Join3(last'.arg[1], last'.arg[2], last'.arg[3])))
        => /\ last'.ret = USBG_ERROR_PATH_TOO_LONG
           /\ last'.log = <<>>
           /\ fs' = fs
           /\ G' = G ]_vars

\* a read and a write of a path one character too long were rejected
C23_Witness ==
    /\ last.op \in AttrReads
    /\ Len(Join3(last.arg[1], last.arg[2], last.arg[3])) = USBG_MAX_PATH_LENGTH
    /\ last.ret = USBG_ERROR_PATH_TOO_LONG

\* The text of an attribute holds a number of the base: after white space
\* and one sign comes a digit of the base.
Unsigned2(t) == IF t # <<>> /\ t[1] \in {CH_MINUS, CH_PLUS} THEN Tail(t) ELSE t

HoldsNumber(text, base) ==
    LET t == Unsigned2(SubSeq(text, SkipSpace(text, 1), Len(text)))
    IN  t # <<>> /\ DigitOf(t[1]) < base

AttrPath(call) == Join3(call.arg[1], call.arg[2], call.arg[3])

BaseOf(op) == IF op = "read_hex" THEN 16 ELSE 10

\* C24: usbg_read_dec / usbg_read_hex of a file that was opened but whose
\* text holds no number of the base does not return USBG_SUCCESS.
C24_UnparsableReadFails ==
    (/\ last.op \in {"read_dec", "read_hex"}
     /\ AttrPath(last) \in DOMAIN fs.files
     /\ ~HoldsNumber(fs.files[AttrPath(last)], BaseOf(last.op)))
    => last.ret # USBG_SUCCESS

Plain(str) ==
    /\ str # <<>>
    /\ Len(str) < USBG_MAX_STR_LENGTH
    /\ \A i \in DOMAIN str : str[i] # CH_NL

\* The read that matches a successful write of a value the attribute type
\* takes.
MatchingRead(call) ==
    CASE call.op = "write_hex16" /\ call.val \in 0..65535 -> {"read_hex"}
      [] call.op = "write_hex8" /\ call.val \in 0..255 -> {"read_hex"}
      [] call.op = "write_dec" /\ call.val >= 0 -> {"read_dec"}
      [] call.op = "write_string" /\ Plain(call.val) -> {"read_string"}
      [] OTHER -> {}

\* C25: a typed write that succeeded, followed by the matching typed read
\* of the same file, reads the value written: hex16 0..65535 and hex8
\* 0..255 through read-hex, a non-negative decimal through read-decimal, a
\* non-empty string without a newline and shorter than the string buffer
\* through read-string.
C25_WriteThenReadReturnsValue ==
    [][ (/\ last.op \in AttrWrites /\ last.ret = USBG_SUCCESS
         /\ last'.op \in MatchingRead(last)
         /\ last'.arg = last.arg)
        => /\ last'.ret = USBG_SUCCESS
           /\ last'.val = last.val ]_vars

\* 0xffff was written and read back, and it is what the file holds
C25_Witness ==
    /\ last.op = "read_hex" /\ last.ret = USBG_SUCCESS /\ last.val = 65535
    /\ fs.files[AttrPath(last)] = <<48, 120, 102, 102, 102, 102>>

\* The error members of the taxonomy.
ErrorMembers ==
    {USBG_ERROR_NO_MEM, USBG_ERROR_NO_ACCESS, USBG_ERROR_INVALID_PARAM,
     USBG_ERROR_NOT_FOUND, USBG_ERROR_IO, USBG_ERROR_EXIST, USBG_ERROR_NO_DEV,
     USBG_ERROR_BUSY, USBG_ERROR_NOT_SUPPORTED, USBG_ERROR_PATH_TOO_LONG,
     USBG_ERROR_OTHER_ERROR}

\* The table of the codes with a member of their own.
NamedCode(error) ==
    CASE error = ENOMEM -> USBG_ERROR_NO_MEM
      [] error = EACCES -> USBG_ERROR_NO_ACCESS
      [] error = EROFS -> USBG_ERROR_NO_ACCESS
      [] error = EPERM -> USBG_ERROR_NO_ACCESS
      [] error = ENOENT -> USBG_ERROR_NOT_FOUND
      [] error = ENOTDIR -> USBG_ERROR_NOT_FOUND
      [] error = EINVAL -> USBG_ERROR_INVALID_PARAM
      [] error = EIO -> USBG_ERROR_IO
      [] error = EEXIST -> USBG_ERROR_EXIST
      [] error = ENODEV -> USBG_ERROR_NO_DEV
      [] error = EBUSY -> USBG_ERROR_BUSY
      [] OTHER -> USBG_SUCCESS

\* C26: for every OS code (an errno value, none of which is negative)
\* usbg_translate_error returns an error member, never USBG_SUCCESS: the
\* member of the table for the eleven named codes and
\* USBG_ERROR_OTHER_ERROR for every other code, 0 included.
C26_TranslateErrorTable ==
    (last.op = "translate_error" /\ last.arg >= 0)
    => /\ last.ret \in ErrorMembers
       /\ last.ret # USBG_SUCCESS
       /\ last.ret = IF NamedCode(last.arg) # USBG_SUCCESS THEN NamedCode(last.arg)
                     ELSE USBG_ERROR_OTHER_ERROR

\* the code 0 was translated
C26_Witness ==
    /\ last.op = "translate_error"
    /\ last.arg = 0
    /\ last.ret = USBG_ERROR_OTHER_ERROR

\* The step of a usbg_create_gadget that the fault made fail: the call
\* makes one allocation, which is not logged, before its first system
\* call, so that the fault-th step is the entry fault - 1 of the log.
FailedStep(call) ==
    IF call.arg.fault[1] >= 2 /\ call.arg.fault[1] - 1 <= Len(call.log)
    THEN call.log[call.arg.fault[1] - 1] ELSE <<"none", <<>>>>

\* The failed step wrote an attribute of the new gadget: a file that lies
\* in the directory of the gadget itself.
AttrWriteFailed(call) ==
    /\ FailedStep(call)[1] \in {"fopen_w", "fputs"}
    /\ Dirname(FailedStep(call)[2]) = Join2(GadgetDir, call.arg.name)

\* C27: a usbg_create_gadget that is given attributes and strings and in
\* which a write of an attribute fails returns the error of that write,
\* and the gadget is not in the gadget queue.
C27_AttributeErrorSurfaces ==
    (/\ last.op = "create_gadget"
     /\ last.arg.g_attrs # NULL /\ last.arg.g_strs # NULL
     /\ AttrWriteFailed(last))
    => /\ last.ret = usbg_translate_error(last.arg.fault[2])
       /\ usbg_get_gadget(G, last.arg.name) = NULL

\* C28: every config node of the graph has an id in 1..255, after
\* usbg_init on a tree and after every create call; a usbg_create_config
\* with an id outside 1..255 returns USBG_ERROR_INVALID_PARAM, makes no
\* system call and changes neither the graph nor the filesystem.
C28_ConfigIdsInRange ==
    [][ /\ \A c \in DOMAIN G'.c : G'.c[c].id \in 1..255
        /\ (last'.op = "create_config" /\ last'.arg.id \notin 1..255)
            => /\ last'.ret = USBG_ERROR_INVALID_PARAM
               /\ last'.log = <<>>
               /\ G' = G
               /\ fs' = fs ]_vars

\* the id 256 was refused for a gadget that has configs, and a tree with
\* the directory c.0 was discovered
C28_Witness ==
    /\ last.op = "create_config" /\ last.arg.id = 256
    /\ last.ret = USBG_ERROR_INVALID_PARAM
    /\ Configs(G, last.arg.g) # <<>>
    /\ CfgPath(STR_g1, STR_c0) \in fs.dirs

\* The config nodes of the gadget g that match id and label; a NULL label
\* matches every label.
ConfigsMatching(graph, g, id, label) ==
    {c \in DOMAIN graph.c :
        /\ graph.c[c].parent = g
        /\ graph.c[c].id = id
        /\ (label = NULL \/ graph.c[c].label = label)}

\* C29: usbg_get_config(g, id, label) returns a config of g that has the
\* id and, for a label other than NULL, the label; it returns NULL exactly
\* when g has no such config; and it leaves the graph as it was.
C29_GetConfigFindsMatch ==
    [][ last'.op = "get_config"
        => /\ ~crashed'
           /\ G' = G
           /\ IF ConfigsMatching(G, last'.arg.g, last'.arg.id, last'.arg.label) = {}
              THEN last'.out = NULL
              ELSE last'.out \in ConfigsMatching(G, last'.arg.g, last'.arg.id,
                                                 last'.arg.label) ]_vars


\* C30: after a successful usbg_init on any tree, the first/next
\* traversals of the gadgets, of the functions and the configs of every
\* gadget and of the bindings of every config are in ascending order of
\* the names the nodes hold.
C30_DiscoveredOrderAscending ==
    (last.op = "init" /\ last.ret = USBG_SUCCESS)
    => /\ Ascending(Names(G.g, Gadgets(G)))
       /\ \A g \in DOMAIN G.g :
             /\ Ascending(Names(G.f, Functions(G, g)))
             /\ Ascending(Names(G.c, Configs(G, g)))
       /\ \A c \in DOMAIN G.c : Ascending(Names(G.b, Bindings(G, c)))


\* The entries of the configs/ directory of the gadget directory g
ConfigEntries(tree, g) ==
    {d \in tree.dirs : Dirname(d) = Join2(g, CONFIGS_DIR)}

\* C35: usbg_init skips no entry of a configs/ directory silently: after
\* a successful usbg_init every such entry, c.0 included, has its Config
\* node among the configs of its gadget.
C35_NoConfigEntrySkipped ==
    (last.op = "init" /\ last.ret = USBG_SUCCESS)
    => \A g \in {d \in fs.dirs : Dirname(d) = GadgetDir} :
         \A d \in ConfigEntries(fs, g) :
            /\ g \in Range(Gadgets(G))
            /\ d \in Range(Configs(G, g))


\* C36: in every state the target Function of every Binding is a function
\* of the gadget that the Binding's Config belongs to.
C36_BindingStaysInGadget ==
    \A b \in DOMAIN G.b :
        ~G.b[b].freed
        => /\ G.b[b].target \in DOMAIN G.f
           /\ G.f[G.b[b].target].parent = G.c[G.b[b].parent].parent


\* the call was made with udc = NULL: it began by listing the controllers
EnabledWithoutName(call) ==
    /\ call.op = "enable_gadget"
    /\ call.log # <<>>
    /\ call.log[1] = <<"scandir", UDC_LIST_DIR>>

\* C39: usbg_enable_gadget with udc = NULL and no controller in the list
\* returns an error without reading an entry of the empty list; it writes
\* nothing to the UDC attribute and leaves g->udc as it was.
C39_NoControllerNoEnable ==
    [][(EnabledWithoutName(last') /\ UdcsOf(fs) = {})
       => (/\ ~crashed'
           /\ last'.ret # USBG_SUCCESS
           /\ Len(last'.log) = 1
           /\ fs' = fs
           /\ G' = G)]_vars


\* The nodes of a collection: every node that was inserted into the
\* queue of its parent and has not been released since
GadgetNodes(graph) == DOMAIN graph.g
FunctionNodes(graph, g) == {f \in DOMAIN graph.f : graph.f[f].parent = g}
ConfigNodes(graph, g) == {c \in DOMAIN graph.c : graph.c[c].parent = g}
BindingNodes(graph, c) ==
    {b \in DOMAIN graph.b : graph.b[b].parent = c /\ ~graph.b[b].freed}

\* The traversal seq visits exactly the nodes, each once
VisitsEachOnce(seq, nodes) == Range(seq) = nodes /\ NoRepeat(seq)

\* C32: the ordered insert adds the new node and loses none.  After
\* successful creations with pairwise distinct names, in any order, the
\* traversal of every collection visits exactly the nodes created in it,
\* each once, and the lookup by identity finds each of them.
C32_InsertLosesNoNode ==
    /\ VisitsEachOnce(Gadgets(G), GadgetNodes(G))
    /\ \A g \in DOMAIN G.g :
         /\ usbg_get_gadget(G, G.g[g].name) = g
         /\ VisitsEachOnce(Functions(G, g), FunctionNodes(G, g))
         /\ VisitsEachOnce(Configs(G, g), ConfigNodes(G, g))
    /\ \A f \in DOMAIN G.f :
         usbg_get_function(G, G.f[f].parent, G.f[f].type, G.f[f].instance) = f
    /\ \A c \in DOMAIN G.c :
         /\ usbg_get_config(G, G.c[c].parent, G.c[c].id, G.c[c].label) = c
         /\ VisitsEachOnce(Bindings(G, c), BindingNodes(G, c))
    /\ \A b \in DOMAIN G.b :
         ~G.b[b].freed => usbg_get_binding(G, G.b[b].parent, G.b[b].name) = b


\* The directory that the call asked mkdir for and that mkdir found
\* present: mkdir is the first system call of the call, it was not made
\* to fail by the environment (the memory allocation is step 1, mkdir
\* step 2), and its path was an entry of the tree before the call.
FoundPresent(call, tree) ==
    IF /\ call.op \in {"create_gadget", "create_gadget_vid_pid",
                       "create_function", "create_config"}
       /\ call.log # <<>>
       /\ call.log[1][1] = "mkdir"
       /\ call.log[1][2] \in tree.dirs
       /\ call.arg.fault[1] # 2
    THEN {call.log[1][2]} ELSE {}

\* C31: a create call whose mkdir reports EEXIST, for an entity that is
\* not in the graph, returns USBG_ERROR_EXIST without a further system
\* call and leaves the directory it found, the rest of the tree and the
\* graph as they were.
C31_FoundDirectoryKept ==
    [][\A p \in FoundPresent(last', fs) :
          /\ ~crashed'
          /\ last'.ret = USBG_ERROR_EXIST
          /\ Len(last'.log) = 1
          /\ p \in fs'.dirs
          /\ fs' = fs
          /\ G' = G]_vars

\* a second usbg_create_function found the directory that a first one,
\* failing in its attribute write, had left behind
C31_Witness ==
    /\ last.op = "create_function"
    /\ last.ret = USBG_ERROR_EXIST
    /\ FoundPresent(last, fs) # {}
    /\ \A f \in DOMAIN G.f : Join2(G.f[f].path, G.f[f].name) \notin FoundPresent(last, fs)


\* The directory of the config that the call is to create
NewConfigAt(call) ==
    Join3(call.arg.g, CONFIGS_DIR,
          ConfigNameOf(IF call.arg.label = NULL THEN DEFAULT_CONFIG_LABEL
                       ELSE call.arg.label, call.arg.id))

\* the attribute file of the config directory d reads back as value
ReadsBack(tree, d, file, base, value) ==
    The({ r.ret = USBG_SUCCESS /\ r.dest = value
          : r \in {usbg_read_int(W(tree, NoFault), Dirname(d), Basename(d), file,
                                 base)} })

\* C33: usbg_create_config with caller-supplied config attributes, for an
\* id the gadget does not have and a directory that does not exist, with
\* no failing system call, returns USBG_SUCCESS, writes MaxPower and
\* bmAttributes with the supplied values and inserts the Config.
C33_ConfigAttributesWritten ==
    [][(/\ last'.op = "create_config"
        /\ last'.arg.c_attrs # NULL
        /\ last'.arg.fault = NoFault
        /\ usbg_get_config(G, last'.arg.g, last'.arg.id, NULL) = NULL
        /\ NewConfigAt(last') \notin fs.dirs)
       => (/\ last'.ret = USBG_SUCCESS
           /\ NewConfigAt(last') \in Range(Configs(G', last'.arg.g))
           /\ ReadsBack(fs', NewConfigAt(last'),
                        <<77, 97, 120, 80, 111, 119, 101, 114>>, 10,
                        last'.arg.c_attrs.bMaxPower)
           /\ ReadsBack(fs', NewConfigAt(last'),
                        <<98, 109, 65, 116, 116, 114, 105, 98, 117, 116, 101, 115>>,
                        16, last'.arg.c_attrs.bmAttributes))]_vars


\* The directory functions/<type-string>.<instance> of the call's gadget
NewFunctionAt(call) ==
    Join3(call.arg.g, FUNCTIONS_DIR,
          function_names[call.arg.type + 1] \o <<CH_DOT>> \o call.arg.instance)

\* C34: for every function type of the table and an instance the gadget
\* does not have for that type, usbg_create_function with no failing
\* system call returns USBG_SUCCESS, makes the directory
\* functions/<type-string>.<instance> and adds exactly one Function, of
\* the name "<type-string>.<instance>", to the gadget.
C34_EveryTypeCreated ==
    [][(/\ last'.op = "create_function"
        /\ last'.arg.fault = NoFault
        /\ usbg_get_function(G, last'.arg.g, last'.arg.type, last'.arg.instance) = NULL
        /\ NewFunctionAt(last') \notin fs.dirs)
       => (/\ ~crashed'
           /\ last'.ret = USBG_SUCCESS
           /\ NewFunctionAt(last') \in fs'.dirs
           /\ Range(Functions(G, last'.arg.g)) \subseteq Range(Functions(G', last'.arg.g))
           /\ Range(Functions(G', last'.arg.g)) \ Range(Functions(G, last'.arg.g))
                = {NewFunctionAt(last')}
           /\ G'.f[NewFunctionAt(last')].name = Basename(NewFunctionAt(last'))
           /\ G'.f[NewFunctionAt(last')].type = last'.arg.type)]_vars


\* usbg_allocate_function gives the call no node: the allocation (step 1)
\* was made to fail, or the type has no type string
NoFunctionNode(call) ==
    \/ call.arg.fault[1] = 1
    \/ usbg_get_function_type_str(call.arg.type) = NULL

\* C40: a usbg_create_function whose node cannot be allocated returns
\* USBG_ERROR_NO_MEM at once: it does not use the missing node, makes no
\* system call and leaves the tree and the graph as they were.
C40_NoNodeNoCreate ==
    [][(/\ last'.op = "create_function"
        /\ usbg_get_function(G, last'.arg.g, last'.arg.type, last'.arg.instance) = NULL
        /\ NoFunctionNode(last'))
       => (/\ ~crashed'
           /\ last'.ret = USBG_ERROR_NO_MEM
           /\ last'.log = <<>>
           /\ fs' = fs
           /\ G' = G)]_vars


CreateOps ==
    {"create_gadget", "create_gadget_vid_pid", "create_function", "create_config"}

\* C37: when a create operation returns an error, the output handle does
\* not refer to a node that has been released: the call has not assigned
\* it, or it is NULL, or the node it refers to has not been freed.
C37_NoDanglingHandle ==
    [][(last'.op \in CreateOps /\ ~crashed' /\ last'.ret # USBG_SUCCESS)
       => (\/ ~last'.out.set
           \/ last'.out.node = NULL
           \/ last'.out.node \notin last'.freed)]_vars

\* The nodes that a traversal from the state reaches
LinkedNodes(graph) ==
    Range(Gadgets(graph))
    \cup UNION {Range(Functions(graph, g)) \cup Range(Configs(graph, g))
                : g \in Range(Gadgets(graph))}

\* C38: when a create operation returns, with success or with an error,
\* every node it allocated is linked into the collection of its parent or
\* has been released.
C38_NoOrphanNode ==
    [][(last'.op \in CreateOps /\ ~crashed')
       => \A n \in last'.alloc : n \in last'.freed \/ n \in LinkedNodes(G')]_vars

====
